---- MODULE Spec2Model ----
(***************************************************************************)
(* Semantic file-index synchronization of files_to_clipboard (src/main.py). *)
(*                                                                         *)
(* SpecSync  : one synchronization pass at a time against a changing file  *)
(*             system (VectorDatabaseManager.get_files_to_index and        *)
(*             auto_index_files, driven by FileCopierApp._trigger_reindex).*)
(* SpecUI    : the three pass starters, the Stop button and the completion  *)
(*             callbacks, interleaved statement by statement.              *)
(* SpecFilter: the filter / search pipeline and its worker threads.        *)
(* SpecUnit, SpecRace, SpecCounts: one pass with the indexing unit opened  *)
(*             up; with the file written meanwhile; with callbacks that    *)
(*             may raise.                                                  *)
(* SpecConnect, SpecSearch, SpecDebounce, SpecStore: host resolution and   *)
(*             model provisioning, the semantic search, the debounce timer *)
(*             of the entries, the store keyed by the hash of the path.    *)
(* SpecOrder : the pass over sub-directories on either platform.           *)
(* SpecScan  : the directory walk of _scan_and_cache_all_files.            *)
(*                                                                         *)
(* Paths and glob patterns are sequences of one-character strings, so that *)
(* basename, splitext and fnmatch are computed, not assumed.               *)
(***************************************************************************)
EXTENDS Integers, Sequences, FiniteSets, TLC

\* ------------------------------------------------------------------ bounds
\* Largest value of the clock (time.time()) and of a file modification time.
MaxTime == 2

\* ------------------------------------------------------------ path algebra
A_PY  == <<"a", ".", "p", "y">>
B_PNG == <<"b", ".", "p", "n", "g">>
C_LOG == <<"c", ".", "l", "o", "g">>

\* The project's files: every path the file system may hold.
Paths == {A_PY, B_PNG, C_LOG}

\* Index-filter values the entry may hold: the *.py pattern of the default
\* filter, a two-pattern list that matches every name, and the empty entry.
STAR_PY  == <<"*", ".", "p", "y">>
STAR_LOG == <<"*", ".", "l", "o", "g">>
STAR     == <<"*">>
DEFAULT_VECTOR_FILE_FILTER == <<STAR_PY>>
FilterChoices == {<<STAR_PY>>, <<STAR_PY, STAR>>, <<>>}

\* ord(c) for the characters used.
ord(c) ==
    CASE c = "*" -> 42 [] c = "." -> 46 [] c = "/" -> 47
      [] c = "a" -> 97 [] c = "b" -> 98 [] c = "c" -> 99 [] c = "g" -> 103
      [] c = "l" -> 108 [] c = "n" -> 110 [] c = "o" -> 111 [] c = "p" -> 112
      [] c = "y" -> 121 [] OTHER -> 0

\* str.lower() of one character.
lower_char(c) ==
    CASE c = "A" -> "a" [] c = "B" -> "b" [] c = "C" -> "c" [] c = "G" -> "g"
      [] c = "L" -> "l" [] c = "N" -> "n" [] c = "O" -> "o" [] c = "P" -> "p"
      [] c = "Y" -> "y" [] OTHER -> c

\* str.lower()
lower(s) == [i \in 1..Len(s) |-> lower_char(s[i])]

\* Positions of character c in s.
Positions(s, c) == {i \in 1..Len(s) : s[i] = c}

LastPos(s, c) == IF Positions(s, c) = {} THEN 0
                 ELSE CHOOSE i \in Positions(s, c) : \A j \in Positions(s, c) : j <= i

\* os.path.basename: what follows the last separator.
basename(p) == SubSeq(p, LastPos(p, "/") + 1, Len(p))

\* os.path.splitext(p)[1]: from the last dot of the base name, unless only
\* dots precede it.
splitext_ext(p) ==
    LET b == basename(p)
        d == LastPos(b, ".")
    IN  IF d = 0 \/ (\A i \in 1..d : b[i] = ".") THEN <<>>
        ELSE SubSeq(b, d, Len(b))

\* p.count(os.path.sep)
sep_count(p) == Cardinality(Positions(p, "/"))

\* The extensions get_files_to_index never embeds.
IMAGE_EXTS == {<<".", "p", "n", "g">>, <<".", "j", "p", "g">>, <<".", "j", "p", "e", "g">>,
               <<".", "g", "i", "f">>, <<".", "b", "m", "p">>, <<".", "w", "e", "b", "p">>}

is_image(p) == lower(splitext_ext(p)) \in IMAGE_EXTS

\* fnmatch.fnmatch(name, pat) with the wildcards * and ? (POSIX: case kept).
RECURSIVE fnmatch(_, _)
fnmatch(name, pat) ==
    IF pat = <<>> THEN name = <<>>
    ELSE IF Head(pat) = "*"
         THEN fnmatch(name, Tail(pat)) \/ (name # <<>> /\ fnmatch(Tail(name), pat))
         ELSE /\ name # <<>>
              /\ (Head(pat) = "?" \/ Head(pat) = Head(name))
              /\ fnmatch(Tail(name), Tail(pat))

\* Lexicographic order of character sequences by ord.
RECURSIVE LexLess(_, _)
LexLess(s, t) ==
    IF t = <<>> THEN FALSE
    ELSE IF s = <<>> THEN TRUE
    ELSE IF ord(Head(s)) # ord(Head(t)) THEN ord(Head(s)) < ord(Head(t))
    ELSE LexLess(Tail(s), Tail(t))

\* The sort key of auto_index_files: (p.count(os.path.sep), p.lower()).
IndexKeyLess(p, q) ==
    \/ sep_count(p) < sep_count(q)
    \/ sep_count(p) = sep_count(q) /\ LexLess(lower(p), lower(q))

\* The key of _scan_and_cache_all_files: str.lower.
LowerLess(p, q) == LexLess(lower(p), lower(q))

\* The elements of S as a list sorted by IndexKeyLess.
RECURSIVE SortByIndexKey(_)
SortByIndexKey(S) ==
    IF S = {} THEN <<>>
    ELSE LET m == CHOOSE x \in S : \A y \in S \ {x} : IndexKeyLess(x, y)
         IN  <<m>> \o SortByIndexKey(S \ {m})

\* The elements of S as a list sorted by LowerLess.
RECURSIVE SortByLower(_)
SortByLower(S) ==
    IF S = {} THEN <<>>
    ELSE LET m == CHOOSE x \in S : \A y \in S \ {x} : LowerLess(x, y)
         IN  <<m>> \o SortByLower(S \ {m})

Range(s) == {s[i] : i \in 1..Len(s)}

\* ------------------------------------------------------------------ state
VARIABLES
    \* the environment
    fs,                      \* the project directory: existing path -> modification time
    now,                     \* time.time()
    \* FileCopierApp
    exclude_patterns_var,    \* the "Exclude Files" entry, a list of globs
    all_text_files,          \* the cached catalog, as the last scan left it
    vector_file_filter_var,  \* the "Index Filter" entry, a list of globs
    is_indexing,
    stop_indexing_flag,      \* threading.Event
    last_cc,                 \* arguments of the completion callbacks of the pass
    \* VectorDatabaseManager
    collection,              \* the store: indexed path -> metadata
    \* the worker thread of auto_index_files
    pc,
    all_files,               \* the catalog handed to the pass
    to_index, to_remove,
    rm_i, ix_i,              \* items consumed by the removal / indexing loop
    indexed_c, removed_c,
    \* history of the running pass
    indexedAtPlan,           \* paths that had an entry when the plan was computed
    diskAtPlan,              \* paths that were on disk when the plan was computed
    deletedByPass,           \* paths whose entry the pass deleted
    upsertedByPass,          \* paths whose entry the pass wrote
    \* history across passes (kept only when Init switches it on)
    hist,                    \* what is known since the last pass, see Track
    basis,                   \* hist as it was when the running pass made its plan
    \* FileCopierApp, the indexing controls (SpecUI)
    vector_db,               \* whether _initialize_vector_db produced a manager
    vector_search_enabled,
    vector_search_mode,      \* the "Vector" toggle; it shows the indexing controls
    button_enabled,          \* manual_index_button is in state NORMAL
    threads,                 \* worker threads: id -> [kind, pc, n_rm, n_ix, stopped]
    cur_pass,                \* id of the thread started last
    after_queue,             \* root.after(0, ...) callbacks not yet run
    connect_pending,         \* connect_async has not reported yet
    continuous_timer,        \* an after() timer for _start_continuous_indexing is set
    reindex_job,             \* _reindex_job: a debounced _trigger_reindex is set
    stop_req,                \* history: the pass a stop request was made for
    units_after_stop,        \* history: units that pass finished after the request
    \* the file tree, its filter and the semantic search
    search_var,              \* the text of the search entry
    last_exclusion_state,    \* _last_exclusion_state
    search_job,              \* _search_job: a debounced _perform_filter_or_search is set
    scan_threads,            \* _scan_and_repopulate threads: [term, at, regex]
    search_threads,          \* sw threads of _perform_vector_search: their queries
    tree,                    \* what the tree view shows
    latest,                  \* history: the request issued last
    \* the connection to Ollama: host resolution and model provisioning
    connect_pc,              \* position of the thread that resolves and provisions
    for_auto_indexing,       \* the argument of find_and_set_active_host
    metered,                 \* environment: the machine is on a metered network
    probes,                  \* history: the answer each host gave to its probe
    requests_log,            \* history: HTTP requests issued, in order
    active_ollama_url,       \* VectorDatabaseManager.active_ollama_url
    ollama_available,        \* VectorDatabaseManager.ollama_available
    host_error,              \* the error string find_and_set_active_host returned
    pull_stream,             \* frames of the /api/pull response not yet read
    frames_read,             \* history: frames read from the response so far
    status_log,              \* status_callback messages, in order
    ensure_error,            \* the RuntimeError _ensure_model_available raised
    manual_index_status_label, \* the text of the label under the index button
    \* one file of the indexing loop, step by step
    unit,                    \* the file unit in progress: content, metadata, embedding
    outcomes,                \* history: how each unit of the pass ended, in order
    events,                  \* history: store, embedding and progress calls of the pass
    \* one semantic search, step by step
    search_pc,               \* position of the sw thread and of its callback
    search_text,             \* the query the search was started with
    q_embed,                 \* what generate_embedding gave for the query
    store_queries,           \* history: collection.query calls of the search
    neighbours,              \* what collection.query returned, nearest first
    output,                  \* the list search_similar_files returned
    rows,                    \* the rows _display_search_results inserted
    \* the debounce timer of the search entry
    tk_clock,                \* the time of the Tk event loop, in units of 100 ms
    tk_timers,               \* root.after timers set and neither run nor cancelled
    tk_ids,                  \* after() identifiers handed out so far
    search_job_id,           \* the value of _search_job: 0 for None, else an identifier
    last_write,              \* history: the time of the last _debounce_search call
    runs_since_write,        \* history: timer callbacks run since that call
    \* the platform
    os_path_sep,             \* os.path.sep: "/" on POSIX, "\\" on win32
    \* _scan_and_cache_all_files and its os.walk
    exclude_dirs_var,        \* the "Exclude Dirs" entry, a list of directory names
    walk_pc,                 \* "idle", "walking" or "done"
    walk_dirs,               \* the directory names the regex of this scan was built from
    walk_todo,               \* directories os.walk has still to open, next first
    walk_opened,             \* history: the directories os.walk has opened and listed
    walk_found               \* all_files_list

syncVars == <<fs, now, exclude_patterns_var, all_text_files, vector_file_filter_var,
              is_indexing, stop_indexing_flag, last_cc, collection, pc, all_files,
              to_index, to_remove, rm_i, ix_i, indexed_c, removed_c,
              indexedAtPlan, diskAtPlan, deletedByPass, upsertedByPass, hist, basis>>

uiVars == <<vector_db, vector_search_enabled, vector_search_mode, button_enabled, threads,
            cur_pass, after_queue, connect_pending, continuous_timer, reindex_job,
            stop_req, units_after_stop>>

filterVars == <<search_var, last_exclusion_state, search_job, scan_threads,
                search_threads, tree, latest>>

netVars == <<connect_pc, for_auto_indexing, metered, probes, requests_log,
             active_ollama_url, ollama_available, host_error, pull_stream, frames_read,
             status_log, ensure_error, manual_index_status_label>>

unitVars == <<unit, outcomes, events>>
searchVars == <<search_pc, search_text, q_embed, store_queries, neighbours, output, rows>>
debounceVars == <<tk_clock, tk_timers, tk_ids, search_job_id, last_write, runs_since_write>>
platformVars == <<os_path_sep>>
walkVars == <<exclude_dirs_var, walk_pc, walk_dirs, walk_todo, walk_opened, walk_found>>

vars == <<syncVars, uiVars, filterVars, netVars, unitVars, searchVars, debounceVars,
          platformVars, walkVars>>

\* "Exclude Files" values: nothing excluded, or the *.log pattern of the default.
ExcludeChoices == {<<>>, <<STAR_LOG>>}

\* ------------------------------------------------------- FileCopierApp

\* _get_exclusion_regex in simple mode, applied to a relative path: the file
\* globs are fnmatch.translate'd and searched from the start of the path.
excluded(p, patterns) == \E i \in 1..Len(patterns) : fnmatch(p, patterns[i])

\* is_includable_file: an image extension, or a text file (no NUL byte in the
\* first 1024 bytes; the project's other files are text).
is_text_file(p) == TRUE
is_includable_file(p) == is_image(p) \/ is_text_file(p)

\* _scan_and_cache_all_files: the files on disk that pass the exclusion rules,
\* sorted by str.lower.
scan_all_files(disk, patterns) ==
    SortByLower({p \in disk : ~excluded(p, patterns) /\ is_includable_file(p)})

\* Mutant: the pattern test is lost, every cached file is eligible.
get_vector_eligible_files_mutAll(cache, patterns) ==
    IF patterns = <<>> THEN <<>> ELSE cache

\* _get_vector_eligible_files: the cached files whose base name matches one of
\* the patterns; nothing when the entry is empty.
get_vector_eligible_files(cache, patterns) ==
    IF patterns = <<>> THEN <<>>
    ELSE SelectSeq(cache,
                   LAMBDA f : \E i \in 1..Len(patterns) : fnmatch(basename(f), patterns[i]))

\* ------------------------------------------------ VectorDatabaseManager

\* get_indexed_files: file_path -> indexed_at of every stored metadata.
get_indexed_files(coll) == [p \in DOMAIN coll |-> coll[p].indexed_at]

\* get_files_to_index, first loop: the listed files that exist, are no image
\* and are not indexed or are newer than the recorded time.
files_to_index(files, indexed, disk) ==
    SelectSeq(files,
              LAMBDA fp : /\ fp \in DOMAIN disk
                          /\ ~is_image(fp)
                          /\ (fp \notin DOMAIN indexed \/ disk[fp] > indexed[fp]))

\* Mutant: the disk test is lost, every unlisted indexed path is removed.
files_to_remove_mutUnlisted(files, indexed, disk) ==
    SortByLower({fp \in DOMAIN indexed : fp \notin Range(files)})

\* Mutant: "or" for "and", a path that is unlisted or gone from disk is removed.
files_to_remove_mutEither(files, indexed, disk) ==
    SortByLower({fp \in DOMAIN indexed : fp \notin Range(files) \/ fp \notin DOMAIN disk})

\* get_files_to_index, second loop: the indexed paths that are neither listed
\* nor on disk.
files_to_remove(files, indexed, disk) ==
    SortByLower({fp \in DOMAIN indexed : fp \notin Range(files) /\ fp \notin DOMAIN disk})

\* to_index.sort(key=lambda p: (p.count(os.path.sep), p.lower()))
sort_to_index(lst) == SortByIndexKey(Range(lst))

\* Mutant: the delete addresses no stored id and removes nothing.
delete_mutNothing(coll, p) == coll

\* collection.upsert / collection.delete, keyed by the hash of the path.
upsert(coll, p, meta) == [q \in DOMAIN coll \cup {p} |-> IF q = p THEN meta ELSE coll[q]]
delete(coll, p) == [q \in DOMAIN coll \ {p} |-> coll[q]]

\* --------------------------------------------------------------- SpecSync
\* What the synchronizer's steps leave alone.
otherThanSync == <<uiVars, filterVars, netVars, unitVars, searchVars, debounceVars, platformVars, walkVars>>

\* What the tree view shows, and the Optional list repopulate_tree takes.
View(view, files, query) == [view |-> view, files |-> files, query |-> query]
None == [none |-> TRUE, files |-> <<>>]
Some(files) == [none |-> FALSE, files |-> files]

\* The connection and the unit in progress, for the specifications that do not
\* open them up: nothing resolved, nothing pulled, no unit.
NoProbes == [primary |-> "none", gpu |-> "none", alternative |-> "none",
             model |-> "none", retry |-> "none"]
NoUnit == [at |-> "none", content |-> <<>>, meta |-> <<>>, response |-> "none",
           embedding |-> "none", read_mtime |-> 0]

NetAtRest ==
    /\ connect_pc = "idle"
    /\ for_auto_indexing = FALSE
    /\ metered = FALSE
    /\ probes = NoProbes
    /\ requests_log = <<>>
    /\ active_ollama_url = "None"
    /\ ollama_available = FALSE
    /\ host_error = "None"
    /\ pull_stream = <<>>
    /\ frames_read = <<>>
    /\ status_log = <<>>
    /\ ensure_error = "None"
    /\ manual_index_status_label = <<>>

UnitAtRest == unit = NoUnit /\ outcomes = <<>> /\ events = <<>>

\* A POSIX platform.
PlatformAtRest == os_path_sep = "/"

\* No scan is being walked.
WalkAtRest ==
    /\ exclude_dirs_var = <<>>
    /\ walk_pc = "idle"
    /\ walk_dirs = <<>>
    /\ walk_todo = <<>>
    /\ walk_opened = {}
    /\ walk_found = <<>>

\* No write to the search entry has happened: _search_job is None.
DebounceAtRest ==
    /\ tk_clock = 0
    /\ tk_timers = {}
    /\ tk_ids = 0
    /\ search_job_id = 0
    /\ last_write = 0
    /\ runs_since_write = 0

\* No search has been started.
SearchAtRest ==
    /\ search_pc = "idle"
    /\ search_text = <<>>
    /\ q_embed = "none"
    /\ store_queries = 0
    /\ neighbours = <<>>
    /\ output = <<>>
    /\ rows = <<>>

\* The indexing controls at rest.
AppAtRest ==
    /\ vector_db = TRUE
    /\ vector_search_enabled = TRUE
    /\ vector_search_mode = TRUE
    /\ button_enabled = TRUE
    /\ threads = <<>>
    /\ cur_pass = 0
    /\ after_queue = <<>>
    /\ connect_pending = FALSE
    /\ continuous_timer = FALSE
    /\ reindex_job = FALSE
    /\ stop_req = 0
    /\ units_after_stop = 0
    /\ search_var = <<>>
    /\ last_exclusion_state = <<>>
    /\ search_job = FALSE
    /\ scan_threads = <<>>
    /\ search_threads = <<>>
    /\ tree = View("directory", <<>>, <<>>)
    /\ latest = [mode |-> "filter", term |-> <<>>, excl |-> <<>>]
    /\ NetAtRest
    /\ UnitAtRest
    /\ SearchAtRest
    /\ DebounceAtRest

\* The same on a POSIX platform with no scan being walked.
UiAtRest ==
    /\ AppAtRest
    /\ PlatformAtRest
    /\ WalkAtRest

NoCall == <<>>
EmptyFs == [p \in {} |-> 0]

InitSync ==
    /\ fs = EmptyFs
    /\ now = 0
    /\ exclude_patterns_var = <<>>
    /\ all_text_files = <<>>
    /\ vector_file_filter_var = DEFAULT_VECTOR_FILE_FILTER
    /\ is_indexing = FALSE
    /\ stop_indexing_flag = FALSE
    /\ last_cc = NoCall
    /\ collection = EmptyFs
    /\ pc = "idle"
    /\ all_files = <<>>
    /\ to_index = <<>>
    /\ to_remove = <<>>
    /\ rm_i = 0
    /\ ix_i = 0
    /\ indexed_c = 0
    /\ removed_c = 0
    /\ indexedAtPlan = {}
    /\ diskAtPlan = {}
    /\ deletedByPass = {}
    /\ upsertedByPass = {}
    /\ hist = <<"off", <<>>>>
    /\ basis = <<"off", <<>>>>
    /\ UiAtRest

appVars == <<exclude_patterns_var, all_text_files, vector_file_filter_var>>
workerVars == <<pc, all_files, to_index, to_remove, rm_i, ix_i, indexed_c, removed_c>>
histVars == <<indexedAtPlan, diskAtPlan, deletedByPass, upsertedByPass, basis>>
passVars == <<is_indexing, stop_indexing_flag, last_cc, collection, workerVars, histVars>>

\* hist is <<kind, path>>:
\*   "off"      no history is kept
\*   "unknown"  nothing is known
\*   "full"     the last pass ran through both loops with every unit
\*              succeeding, and nothing changed since
\*   "empty"    the last pass found nothing to do, and nothing changed since
\*   "touched"  after "empty", only the modification time of the indexed
\*              path hist[2] increased
Unknown == <<"unknown", <<>>>>
Track(h) == IF hist[1] = "off" THEN hist ELSE h

\* The environment acts between passes.
Quiet == pc = "idle"

\* The clock advances.
Tick ==
    /\ now < MaxTime
    /\ now' = now + 1
    /\ UNCHANGED <<fs, appVars, passVars, hist>>
    /\ UNCHANGED otherThanSync

\* A file appears with some modification time (written now, copied with its
\* times kept, extracted from an archive, or stamped by another clock).
CreateFile ==
    /\ Quiet
    /\ \E p \in Paths \ DOMAIN fs, t \in 0..MaxTime :
          fs' = [q \in DOMAIN fs \cup {p} |-> IF q = p THEN t ELSE fs[q]]
    /\ hist' = Track(Unknown)
    /\ UNCHANGED <<now, appVars, passVars>>
    /\ UNCHANGED otherThanSync

\* The modification time of a file increases.
ModifyFile ==
    /\ Quiet
    /\ \E p \in DOMAIN fs, t \in 0..MaxTime :
          /\ t > fs[p]
          /\ fs' = [fs EXCEPT ![p] = t]
          /\ hist' = Track(IF p \in DOMAIN collection /\ hist \in {<<"empty", <<>>>>, <<"touched", p>>}
                           THEN <<"touched", p>> ELSE Unknown)
    /\ UNCHANGED <<now, appVars, passVars>>
    /\ UNCHANGED otherThanSync

\* A file is removed from disk.
DeleteFile ==
    /\ Quiet
    /\ \E p \in DOMAIN fs : fs' = [q \in DOMAIN fs \ {p} |-> fs[q]]
    /\ hist' = Track(Unknown)
    /\ UNCHANGED <<now, appVars, passVars>>
    /\ UNCHANGED otherThanSync

\* _scan_and_cache_all_files
Rescan ==
    /\ Quiet
    /\ all_text_files' = scan_all_files(DOMAIN fs, exclude_patterns_var)
    /\ all_text_files' # all_text_files
    /\ hist' = Track(Unknown)
    /\ UNCHANGED <<fs, now, exclude_patterns_var, vector_file_filter_var, passVars>>
    /\ UNCHANGED otherThanSync

\* The user edits the "Index Filter" entry.
SetIndexFilter ==
    /\ Quiet
    /\ \E f \in FilterChoices \ {vector_file_filter_var} : vector_file_filter_var' = f
    /\ hist' = Track(Unknown)
    /\ UNCHANGED <<fs, now, exclude_patterns_var, all_text_files, passVars>>
    /\ UNCHANGED otherThanSync

\* _trigger_reindex up to the thread start of auto_index_files.
StartPass ==
    /\ pc = "idle"
    /\ ~is_indexing
    /\ is_indexing' = TRUE
    /\ stop_indexing_flag' = FALSE
    /\ all_files' = get_vector_eligible_files(all_text_files, vector_file_filter_var)
    /\ last_cc' = NoCall
    /\ pc' = "plan"
    /\ UNCHANGED <<fs, now, appVars, collection, to_index, to_remove, rm_i, ix_i,
                   indexed_c, removed_c, histVars, hist>>
    /\ UNCHANGED otherThanSync

\* on_manual_index_click while a pass is running: the stop request.
StopClick ==
    /\ is_indexing
    /\ ~stop_indexing_flag
    /\ stop_indexing_flag' = TRUE
    /\ UNCHANGED <<fs, now, appVars, is_indexing, last_cc, collection, workerVars, histVars, hist>>
    /\ UNCHANGED otherThanSync

\* worker: get_files_to_index, the sort and the total_ops test.
Plan ==
    /\ pc = "plan"
    /\ LET indexed == get_indexed_files(collection)
           ti == sort_to_index(files_to_index(all_files, indexed, fs))
           tr == files_to_remove(all_files, indexed, fs)
       IN  /\ to_index' = ti
           /\ to_remove' = tr
           /\ pc' = IF Len(ti) + Len(tr) = 0 THEN "cc" ELSE "rm"
    /\ indexedAtPlan' = DOMAIN collection
    /\ diskAtPlan' = DOMAIN fs
    /\ basis' = hist
    /\ UNCHANGED <<fs, now, appVars, is_indexing, stop_indexing_flag, last_cc, collection,
                   all_files, rm_i, ix_i, indexed_c, removed_c,
                   deletedByPass, upsertedByPass, hist>>
    /\ UNCHANGED otherThanSync

\* worker: head of the removal loop, with its stop test.
RmCheck ==
    /\ pc = "rm"
    /\ pc' = IF rm_i = Len(to_remove) \/ stop_indexing_flag THEN "ix" ELSE "rm_do"
    /\ UNCHANGED <<fs, now, appVars, is_indexing, stop_indexing_flag, last_cc, collection,
                   all_files, to_index, to_remove, rm_i, ix_i, indexed_c, removed_c, histVars, hist>>
    /\ UNCHANGED otherThanSync

\* worker: remove_file_from_index for one path; a store error leaves the entry.
RmDo ==
    /\ pc = "rm_do"
    /\ \E ok \in BOOLEAN :
          LET fp == to_remove[rm_i + 1]
          IN  /\ collection' = IF ok THEN delete(collection, fp) ELSE collection
              /\ removed_c' = IF ok THEN removed_c + 1 ELSE removed_c
              /\ deletedByPass' = IF ok THEN deletedByPass \cup {fp} ELSE deletedByPass
    /\ rm_i' = rm_i + 1
    /\ pc' = "rm"
    /\ UNCHANGED <<fs, now, appVars, is_indexing, stop_indexing_flag, last_cc,
                   all_files, to_index, to_remove, ix_i, indexed_c,
                   indexedAtPlan, diskAtPlan, upsertedByPass, basis, hist>>
    /\ UNCHANGED otherThanSync

\* Mutant: the indexing loop does not test the stop event.
IxCheck_mutNoStopTest ==
    /\ pc = "ix"
    /\ pc' = IF ix_i = Len(to_index) THEN "cc" ELSE "ix_do"
    /\ UNCHANGED <<fs, now, appVars, is_indexing, stop_indexing_flag, last_cc, collection,
                   all_files, to_index, to_remove, rm_i, ix_i, indexed_c, removed_c, histVars, hist>>
    /\ UNCHANGED otherThanSync

\* worker: head of the indexing loop, with its stop test.
IxCheck ==
    /\ pc = "ix"
    /\ pc' = IF ix_i = Len(to_index) \/ stop_indexing_flag THEN "cc" ELSE "ix_do"
    /\ UNCHANGED <<fs, now, appVars, is_indexing, stop_indexing_flag, last_cc, collection,
                   all_files, to_index, to_remove, rm_i, ix_i, indexed_c, removed_c, histVars, hist>>
    /\ UNCHANGED otherThanSync

\* The metadata auto_index_files stores with an entry. get_indexed_files reads
\* file_path and indexed_at; the other fields (file_name, file_ext, file_size,
\* file_mtime) are written and never read by the synchronizer.
make_meta(fp, clock) == [indexed_at |-> clock]

\* worker: read, embed and upsert one file. Nothing is written when the file
\* cannot be read, is empty after strip(), has no embedding or the store fails.
IxDo ==
    /\ pc = "ix_do"
    /\ \E ok \in BOOLEAN :
          LET fp == to_index[ix_i + 1]
              written == ok /\ fp \in DOMAIN fs
          IN  /\ collection' = IF written THEN upsert(collection, fp, make_meta(fp, now))
                                ELSE collection
              /\ indexed_c' = IF written THEN indexed_c + 1 ELSE indexed_c
              /\ upsertedByPass' = IF written THEN upsertedByPass \cup {fp} ELSE upsertedByPass
    /\ ix_i' = ix_i + 1
    /\ pc' = "ix"
    /\ UNCHANGED <<fs, now, appVars, is_indexing, stop_indexing_flag, last_cc,
                   all_files, to_index, to_remove, rm_i, removed_c,
                   indexedAtPlan, diskAtPlan, deletedByPass, basis, hist>>
    /\ UNCHANGED otherThanSync

\* worker: completion_callback(indexed_c, len(to_index), removed_c, len(to_remove)),
\* here the cc of _trigger_reindex.
Complete ==
    /\ pc = "cc"
    /\ is_indexing' = FALSE
    /\ last_cc' = Append(last_cc, [ic |-> indexed_c, tic |-> Len(to_index),
                                    rc |-> removed_c, trc |-> Len(to_remove),
                                    stopped |-> stop_indexing_flag])
    /\ pc' = "done"
    /\ hist' = Track(IF Len(to_index) + Len(to_remove) = 0 THEN <<"empty", <<>>>>
                     ELSE IF /\ rm_i = Len(to_remove) /\ removed_c = Len(to_remove)
                             /\ ix_i = Len(to_index) /\ indexed_c = Len(to_index)
                          THEN <<"full", <<>>>>
                          ELSE Unknown)
    /\ UNCHANGED <<fs, now, appVars, stop_indexing_flag, collection,
                   all_files, to_index, to_remove, rm_i, ix_i, indexed_c, removed_c, histVars>>
    /\ UNCHANGED otherThanSync

\* worker: the thread function returns; its locals are gone.
Return ==
    /\ pc = "done"
    /\ pc' = "idle"
    /\ all_files' = <<>>
    /\ to_index' = <<>>
    /\ to_remove' = <<>>
    /\ rm_i' = 0
    /\ ix_i' = 0
    /\ indexed_c' = 0
    /\ removed_c' = 0
    /\ last_cc' = NoCall
    /\ indexedAtPlan' = {}
    /\ diskAtPlan' = {}
    /\ deletedByPass' = {}
    /\ upsertedByPass' = {}
    /\ basis' = Track(Unknown)
    /\ UNCHANGED <<fs, now, appVars, is_indexing, stop_indexing_flag, collection, hist>>
    /\ UNCHANGED otherThanSync

NextSync ==
    \/ Tick \/ CreateFile \/ ModifyFile \/ DeleteFile
    \/ Rescan \/ SetIndexFilter
    \/ StartPass \/ StopClick
    \/ Plan \/ RmCheck \/ RmDo \/ IxCheck \/ IxDo \/ Complete \/ Return

SpecSync == InitSync /\ [][NextSync]_vars

\* The same machine with the history across passes switched on.
InitSyncHist ==
    /\ fs = EmptyFs
    /\ now = 0
    /\ exclude_patterns_var = <<>>
    /\ all_text_files = <<>>
    /\ vector_file_filter_var = DEFAULT_VECTOR_FILE_FILTER
    /\ is_indexing = FALSE
    /\ stop_indexing_flag = FALSE
    /\ last_cc = NoCall
    /\ collection = EmptyFs
    /\ pc = "idle"
    /\ all_files = <<>>
    /\ to_index = <<>>
    /\ to_remove = <<>>
    /\ rm_i = 0
    /\ ix_i = 0
    /\ indexed_c = 0
    /\ removed_c = 0
    /\ indexedAtPlan = {}
    /\ diskAtPlan = {}
    /\ deletedByPass = {}
    /\ upsertedByPass = {}
    /\ hist = Unknown
    /\ basis = Unknown
    /\ UiAtRest

SpecSyncHist == InitSyncHist /\ [][NextSync]_vars

\* ------------------------------------------------- properties of a pass
\* The worker has computed its plan and still holds it.
Planned == pc \in {"rm", "rm_do", "ix", "ix_do", "cc", "done"}

\* The worker has left both loops.
AtEnd == pc \in {"cc", "done"}

\* Both loops consumed their whole list (none was left by a break).
RanThrough == rm_i = Len(to_remove) /\ ix_i = Len(to_index)

\* Every unit of the pass succeeded.
AllSucceeded == removed_c = Len(to_remove) /\ indexed_c = Len(to_index)

\* The pass ran to completion.
Completed == AtEnd /\ RanThrough /\ AllSucceeded

\* C2: when a synchronization ran to completion and nothing changed since
\* (files, catalog, filter), the next synchronization plans nothing: its
\* to_index and its to_remove are empty. (Stated for a first run in which
\* every unit succeeded.)
C2_SecondRunPlansNothing ==
    (Planned /\ basis[1] \in {"full", "empty"}) => (to_index = <<>> /\ to_remove = <<>>)

\* C3: a completed pass deletes the entry of every indexed path that is gone
\* from disk and from the scanned catalog, and keeps the entry of every
\* indexed path that is on disk.
C3_RemovedPathsAndNoOthers ==
    Completed =>
        /\ \A p \in indexedAtPlan :
              (p \notin diskAtPlan /\ p \notin Range(all_text_files)) => p \notin DOMAIN collection
        /\ \A p \in indexedAtPlan : p \in diskAtPlan => p \in DOMAIN collection

\* C3 witness: a completed pass deleted the entry of a path that is gone from
\* disk and catalog while the entry of another path survived.
C3_Witness ==
    /\ Completed
    /\ \E p \in indexedAtPlan, q \in indexedAtPlan :
          /\ p # q
          /\ p \notin diskAtPlan /\ p \notin Range(all_text_files) /\ p \in deletedByPass
          /\ q \in diskAtPlan /\ q \in DOMAIN collection

\* C4: when the index was in sync (the last pass found nothing to do) and then
\* only the modification time of one indexed, listed path p increased, the
\* next pass plans to index exactly p.
C4_TouchedPathIsReindexed ==
    (Planned /\ basis[1] = "touched" /\ basis[2] \in Range(all_files))
        => (to_index = <<basis[2]>> /\ to_remove = <<>>)

\* C5: from a state in which the stop flag is set the worker begins no unit;
\* and a pass that ends with the flag set has called its completion callback
\* once, with the counts of the units that succeeded and the stopped mark.
C5_StoppedReport ==
    (pc = "done" /\ stop_indexing_flag) =>
        last_cc = << [ic |-> Cardinality(upsertedByPass), tic |-> Len(to_index),
                      rc |-> Cardinality(deletedByPass), trc |-> Len(to_remove),
                      stopped |-> TRUE] >>

C5_NoUnitBegins ==
    stop_indexing_flag => ~(pc \in {"rm", "ix"} /\ pc' \in {"rm_do", "ix_do"})

C5_CancelEndsPass == [](C5_StoppedReport) /\ [][C5_NoUnitBegins]_vars

\* C5 witness: a pass stopped after one of its two files reported partial counts.
C5_Witness ==
    /\ pc = "done"
    /\ stop_indexing_flag
    /\ Len(last_cc) = 1
    /\ last_cc[1].stopped
    /\ last_cc[1].ic = 1
    /\ last_cc[1].tic = 2
    /\ ix_i = 1

\* C8 as claimed: after a completed pass every entry is for a path of the
\* catalog of eligible files.
C8_OnlyEligibleEntries ==
    Completed => DOMAIN collection \subseteq Range(all_files)

\* C8 as amended: a pass writes entries only for paths of its catalog; after a
\* completed pass no entry is left whose path is neither in the catalog nor on
\* disk, and every entry whose path is in the catalog or on disk is kept.
C8_EntriesAfterPass ==
    /\ upsertedByPass \subseteq Range(all_files)
    /\ Completed =>
          /\ \A p \in DOMAIN collection : p \in Range(all_files) \/ p \in diskAtPlan
          /\ \A p \in indexedAtPlan :
                (p \in Range(all_files) \/ p \in diskAtPlan) => p \in DOMAIN collection

\* C8 witness: a completed pass removed an entry, and kept the entry of a path
\* that is on disk but no longer eligible.
C8_Witness ==
    /\ pc = "done"
    /\ Completed
    /\ deletedByPass # {}
    /\ \E p \in DOMAIN collection : p \notin Range(all_files) /\ p \in DOMAIN fs

\* C9: to_remove holds exactly the indexed paths that are neither in the
\* catalog handed to the pass nor on disk, and the pass deletes no entry of a
\* path that is on disk.
C9_RemoveOnlyTrueDeletions ==
    Planned =>
        /\ Range(to_remove) = {p \in indexedAtPlan : p \notin Range(all_files) /\ p \notin diskAtPlan}
        /\ deletedByPass \cap diskAtPlan = {}

\* C9 witness: an indexed path that is on disk and absent from the catalog is
\* not in to_remove, while another path is.
C9_Witness ==
    /\ pc = "rm"
    /\ to_remove # <<>>
    /\ \E p \in indexedAtPlan :
          p \in diskAtPlan /\ p \notin Range(all_files) /\ p \notin Range(to_remove)

\* C10: a pass writes entries only for paths whose base name matches a pattern
\* of the index filter and that are no image; no image ever has an entry; with
\* the catalog [a.py, b.png, c.log] and the filter *.py the pass plans and
\* writes a.py alone.
C10_OnlyEligibleNonImages ==
    /\ \A p \in upsertedByPass :
          /\ \E i \in 1..Len(vector_file_filter_var) :
                fnmatch(basename(p), vector_file_filter_var[i])
          /\ splitext_ext(p) \notin IMAGE_EXTS
    /\ B_PNG \notin DOMAIN collection
    /\ (Planned /\ all_text_files = <<A_PY, B_PNG, C_LOG>> /\ vector_file_filter_var = <<STAR_PY>>)
          => (Range(to_index) \subseteq {A_PY} /\ upsertedByPass \subseteq {A_PY})

\* C10 witness: the scenario, with a.py indexed and nothing else.
C10_Witness ==
    /\ pc = "done"
    /\ all_text_files = <<A_PY, B_PNG, C_LOG>>
    /\ vector_file_filter_var = <<STAR_PY>>
    /\ DOMAIN fs = Paths
    /\ upsertedByPass = {A_PY}
    /\ DOMAIN collection = {A_PY}

\* ----------------------------------------------------------------- SpecUI
\* The indexing controls of FileCopierApp: the UI thread's handlers, the
\* worker threads they start and the callbacks the workers post with
\* root.after(0, ...).  A worker's to_remove and to_index are drawn as lengths
\* here; their contents are the subject of SpecSync.

MaxThreads == 2     \* worker threads alive or with their callback still queued
MaxUnits == 1       \* length of to_remove and of to_index in a pass

syncRest == <<fs, now, exclude_patterns_var, all_text_files, vector_file_filter_var,
              last_cc, collection, pc, all_files, to_index, to_remove, rm_i, ix_i,
              indexed_c, removed_c, indexedAtPlan, diskAtPlan, deletedByPass,
              upsertedByPass, hist, basis>>

\* __init__: no pass, the toggle off, the button NORMAL; finish_project_load
\* schedules _start_background_vector_tasks when the manager exists.
InitUI ==
    /\ fs = EmptyFs /\ now = 0
    /\ exclude_patterns_var = <<>>
    /\ all_text_files = <<>>
    /\ vector_file_filter_var = DEFAULT_VECTOR_FILE_FILTER
    /\ is_indexing = FALSE
    /\ stop_indexing_flag = FALSE
    /\ last_cc = NoCall
    /\ collection = EmptyFs
    /\ pc = "idle"
    /\ all_files = <<>> /\ to_index = <<>> /\ to_remove = <<>>
    /\ rm_i = 0 /\ ix_i = 0 /\ indexed_c = 0 /\ removed_c = 0
    /\ indexedAtPlan = {} /\ diskAtPlan = {}
    /\ deletedByPass = {} /\ upsertedByPass = {}
    /\ hist = <<"off", <<>>>> /\ basis = <<"off", <<>>>>
    /\ vector_db \in BOOLEAN
    /\ vector_search_enabled = FALSE
    /\ vector_search_mode = FALSE
    /\ button_enabled = TRUE
    /\ threads = <<>>
    /\ cur_pass = 0
    /\ after_queue = <<>>
    /\ connect_pending = vector_db
    /\ continuous_timer = FALSE
    /\ reindex_job = FALSE
    /\ stop_req = 0
    /\ units_after_stop = 0
    /\ search_var = <<>>
    /\ last_exclusion_state = <<>>
    /\ search_job = FALSE
    /\ scan_threads = <<>>
    /\ search_threads = <<>>
    /\ tree = View("directory", <<>>, <<>>)
    /\ latest = [mode |-> "filter", term |-> <<>>, excl |-> <<>>]
    /\ NetAtRest
    /\ UnitAtRest
    /\ SearchAtRest
    /\ DebounceAtRest
    /\ PlatformAtRest
    /\ WalkAtRest

\* Worker threads, and the final callbacks of workers that have returned.
PassesInFlight ==
    Cardinality(DOMAIN threads)
    + Cardinality({i \in 1..Len(after_queue) : after_queue[i].cb \in {"done", "failure"}})

\* Thread ids are reused once a thread has returned.
FreeIds == (1..MaxThreads) \ DOMAIN threads
next_id == CHOOSE x \in FreeIds : \A y \in FreeIds : x <= y

\* threading.Thread(target=...).start() after "is_indexing = True;
\* stop_indexing_flag.clear()".
StartWorker(kind, first) ==
    /\ PassesInFlight < MaxThreads
    /\ is_indexing' = TRUE
    /\ stop_indexing_flag' = FALSE
    /\ threads' = [x \in DOMAIN threads \cup {next_id} |->
                      IF x = next_id
                      THEN [kind |-> kind, at |-> first, n_rm |-> 0, n_ix |-> 0,
                            stopped |-> FALSE]
                      ELSE threads[x]]
    /\ cur_pass' = next_id

NoWorker == UNCHANGED <<is_indexing, stop_indexing_flag, threads, cur_pass>>

\* Mutant: _trigger_reindex without the "or self.is_indexing" test.
reindex_rejected_mutNoBusyTest == ~vector_db \/ ~vector_search_enabled

\* The early return of _trigger_reindex and _start_continuous_indexing.
reindex_rejected == ~vector_db \/ ~vector_search_enabled \/ is_indexing

\* root.after(0, callback) from a thread.
Post(cb, arg) == after_queue' = Append(after_queue, [cb |-> cb, arg |-> arg])

\* on_manual_index_click: a stop request while a pass is marked active, the
\* start of a manual pass otherwise.
on_manual_index_click ==
    /\ vector_search_mode /\ button_enabled
    /\ IF is_indexing
       THEN /\ stop_indexing_flag' = TRUE
            /\ button_enabled' = FALSE
            /\ stop_req' = cur_pass
            /\ units_after_stop' = 0
            /\ UNCHANGED <<is_indexing, threads, cur_pass>>
       ELSE /\ StartWorker("manual", "probe1")
            /\ button_enabled' = TRUE
            /\ UNCHANGED <<stop_req, units_after_stop>>
    /\ UNCHANGED <<syncRest, filterVars, netVars, unitVars, searchVars, debounceVars, platformVars, walkVars, vector_db, vector_search_enabled, vector_search_mode,
                   after_queue, connect_pending, continuous_timer, reindex_job>>

\* _debounce_reindex: a write to the index filter entry re-arms the 2 s timer.
debounce_reindex ==
    /\ reindex_job' = TRUE
    /\ UNCHANGED <<syncVars, filterVars, netVars, unitVars, searchVars, debounceVars, platformVars, walkVars, vector_db, vector_search_enabled, vector_search_mode,
                   button_enabled, threads, cur_pass, after_queue,
                   connect_pending, continuous_timer, stop_req, units_after_stop>>

\* _trigger_reindex, run by the debounce timer.
trigger_reindex ==
    /\ reindex_job
    /\ reindex_job' = FALSE
    /\ IF reindex_rejected
       THEN NoWorker /\ UNCHANGED button_enabled
       ELSE StartWorker("reindex", "plan") /\ button_enabled' = TRUE
    /\ UNCHANGED <<syncRest, filterVars, netVars, unitVars, searchVars, debounceVars, platformVars, walkVars, vector_db, vector_search_enabled, vector_search_mode,
                   after_queue, connect_pending, continuous_timer, stop_req,
                   units_after_stop>>

\* ------------------------------------------------- the filter and the search
MaxInFlight == 2    \* scans and searches running or waiting to be rendered

\* The texts typed into the search entry.
SearchTexts == {<<>>, <<"A">>, <<"c", " ">>}

\* str.strip() for blanks.
RECURSIVE strip(_)
strip(s) ==
    IF s = <<>> THEN s
    ELSE IF Head(s) = " " THEN strip(Tail(s))
    ELSE IF s[Len(s)] = " " THEN strip(SubSeq(s, 1, Len(s) - 1))
    ELSE s

\* "sub in s" for strings.
contains(s, sub) == \E i \in 0..(Len(s) - Len(sub)) : SubSeq(s, i + 1, i + Len(sub)) = sub

\* repopulate_tree: the lazy directory view for None, the given files otherwise
\* (an empty list shows "No matching files found.").
repopulate_tree(files_to_display) ==
    IF files_to_display.none THEN View("directory", <<>>, <<>>)
    ELSE View("files", files_to_display.files, <<>>)

\* The argument _perform_filter and the callback of _scan_and_repopulate give
\* to repopulate_tree: the cached files whose lowered base name contains the
\* term, or None without a term.
files_for_term(cache, search_term) ==
    IF search_term # <<>>
    THEN Some(SelectSeq(cache, LAMBDA f : contains(lower(basename(f)), search_term)))
    ELSE None

\* search_similar_files: the stored paths ranked for the query.
search_similar_files(query, coll) == [query |-> query, paths |-> SortByLower(DOMAIN coll)]

\* _display_search_results
display_search_results(results) == View("results", results.paths, results.query)

\* Responses not yet rendered.
InFlight == Len(scan_threads) + Len(search_threads) + Len(after_queue)

\* _perform_filter: a changed exclusion state starts a scan thread, the same
\* state renders from the cache at once.
perform_filter ==
    LET search_term == lower(search_var) IN
    /\ latest' = [mode |-> "filter", term |-> search_term, excl |-> exclude_patterns_var]
    /\ IF last_exclusion_state # exclude_patterns_var
       THEN /\ InFlight < MaxInFlight
            /\ last_exclusion_state' = exclude_patterns_var
            /\ scan_threads' = Append(scan_threads, [term |-> search_term, at |-> "scan",
                                                     regex |-> <<>>])
            /\ UNCHANGED tree
       ELSE /\ tree' = repopulate_tree(files_for_term(all_text_files, search_term))
            /\ UNCHANGED <<last_exclusion_state, scan_threads>>
    /\ UNCHANGED search_threads

\* _perform_vector_search when the mode is `mode`: nothing unless the search is
\* available, a hint for an empty query, a search thread otherwise.
perform_vector_search(mode) ==
    LET query == strip(search_var) IN
    /\ IF ~vector_db \/ ~vector_search_enabled \/ ~mode
       THEN UNCHANGED <<tree, latest, search_threads>>
       ELSE IF query = <<>>
       THEN /\ tree' = View("hint", <<>>, <<>>)
            /\ latest' = [mode |-> "search", term |-> query, excl |-> <<>>]
            /\ UNCHANGED search_threads
       ELSE /\ InFlight < MaxInFlight
            /\ search_threads' = Append(search_threads, query)
            /\ latest' = [mode |-> "search", term |-> query, excl |-> <<>>]
            /\ UNCHANGED tree
    /\ UNCHANGED <<last_exclusion_state, scan_threads>>

\* _perform_filter_or_search when the mode is `mode`.
perform_filter_or_search(mode) ==
    IF mode THEN perform_vector_search(mode) ELSE perform_filter

\* _on_vector_toggle: switching the mode on shows the controls, sets the button
\* NORMAL and calls _trigger_reindex; without a manager the toggle falls back
\* and returns.  Both directions end in _perform_filter_or_search.
on_vector_toggle ==
    /\ IF ~vector_search_mode
       THEN IF ~vector_db
            THEN /\ NoWorker
                 /\ UNCHANGED <<vector_search_mode, button_enabled>>
            ELSE /\ vector_search_mode' = TRUE
                 /\ button_enabled' = TRUE
                 /\ IF reindex_rejected THEN NoWorker ELSE StartWorker("reindex", "plan")
       ELSE /\ vector_search_mode' = FALSE
            /\ NoWorker
            /\ UNCHANGED button_enabled
    /\ IF ~vector_search_mode /\ ~vector_db
       THEN UNCHANGED <<last_exclusion_state, scan_threads, search_threads, tree, latest>>
       ELSE perform_filter_or_search(~vector_search_mode)
    /\ UNCHANGED <<netVars, unitVars, searchVars, debounceVars, platformVars, walkVars>>
    /\ UNCHANGED <<syncRest, vector_db, vector_search_enabled, after_queue,
                   connect_pending, continuous_timer, reindex_job, stop_req,
                   units_after_stop, search_var, search_job>>

\* _start_continuous_indexing, run by its timer: a pass when none is marked
\* active; the timer is set again only when no pass is marked active.
start_continuous_indexing ==
    /\ continuous_timer
    /\ IF reindex_rejected
       THEN /\ continuous_timer' = ~is_indexing
            /\ NoWorker
            /\ UNCHANGED button_enabled
       ELSE /\ continuous_timer' = FALSE
            /\ StartWorker("continuous", "plan")
            /\ button_enabled' = TRUE
    /\ UNCHANGED <<syncRest, filterVars, netVars, unitVars, searchVars, debounceVars, platformVars, walkVars, vector_db, vector_search_enabled, vector_search_mode,
                   after_queue, connect_pending, reindex_job, stop_req,
                   units_after_stop>>

\* _connect_worker: the host search and the model check succeed or fail, and
\* the completion callback is posted to the UI thread.
connect_worker ==
    /\ connect_pending
    /\ connect_pending' = FALSE
    /\ \E success \in BOOLEAN : Post("ready", success)
    /\ UNCHANGED <<syncVars, filterVars, netVars, unitVars, searchVars, debounceVars, platformVars, walkVars, vector_db, vector_search_enabled, vector_search_mode,
                   button_enabled, threads, cur_pass, continuous_timer,
                   reindex_job, stop_req, units_after_stop>>

\* _on_vector_db_ready: enables vector search on success and, unless
\* should_disable_auto_indexing says the hardware is weak, sets the timer of
\* the continuous indexing.
on_vector_db_ready ==
    /\ after_queue # <<>> /\ Head(after_queue).cb = "ready"
    /\ after_queue' = Tail(after_queue)
    /\ vector_search_enabled' = Head(after_queue).arg
    /\ IF Head(after_queue).arg
       THEN \E disable \in BOOLEAN : continuous_timer' = ~disable
       ELSE UNCHANGED continuous_timer
    /\ UNCHANGED <<syncVars, filterVars, netVars, unitVars, searchVars, debounceVars, platformVars, walkVars, vector_db, vector_search_mode, button_enabled, threads,
                   cur_pass, connect_pending, reindex_job, stop_req,
                   units_after_stop>>

\* _handle_manual_index_failure: the pass is over and the button is DISABLED.
handle_manual_index_failure ==
    /\ after_queue # <<>> /\ Head(after_queue).cb = "failure"
    /\ after_queue' = Tail(after_queue)
    /\ is_indexing' = FALSE
    /\ button_enabled' = FALSE
    /\ cur_pass' = 0 /\ stop_req' = 0 /\ units_after_stop' = 0
    /\ UNCHANGED <<syncRest, filterVars, netVars, unitVars, searchVars, debounceVars, platformVars, walkVars, stop_indexing_flag, vector_db, vector_search_enabled,
                   vector_search_mode, threads, connect_pending, continuous_timer,
                   reindex_job>>

\* The lambda a completion callback posts: the button reads "Start Indexing"
\* and is NORMAL again; after a continuous pass the 60 s timer is set.
index_finished ==
    /\ after_queue # <<>> /\ Head(after_queue).cb = "done"
    /\ after_queue' = Tail(after_queue)
    /\ button_enabled' = TRUE
    /\ continuous_timer' = IF Head(after_queue).arg[1] = "continuous" THEN TRUE
                           ELSE continuous_timer
    /\ UNCHANGED <<syncVars, filterVars, netVars, unitVars, searchVars, debounceVars, platformVars, walkVars, vector_db, vector_search_enabled, vector_search_mode,
                   threads, cur_pass, connect_pending, reindex_job, stop_req,
                   units_after_stop>>

\* -------------------------------------------------- the worker threads
Move(t, place) == threads' = [threads EXCEPT ![t].at = place]
Exit(t) == threads' = [x \in DOMAIN threads \ {t} |-> threads[x]]

\* History: a unit of work finished by the pass a stop was requested for.
CountUnit(t) ==
    units_after_stop' = IF stop_req = t THEN units_after_stop + 1 ELSE units_after_stop

uiShared == <<vector_db, vector_search_enabled, vector_search_mode, button_enabled,
              connect_pending, continuous_timer, reindex_job>>

\* The thread goes on, or returns with its pass still marked active.
passRefs == <<cur_pass, stop_req>>

\* History: the stop request of a pass is forgotten with the pass.
Forget(t) ==
    /\ cur_pass' = IF cur_pass = t THEN 0 ELSE cur_pass
    /\ stop_req' = IF stop_req = t THEN 0 ELSE stop_req
    /\ units_after_stop' = IF stop_req = t THEN 0 ELSE units_after_stop

\* _manual_index_worker up to the first probe of find_and_set_active_host: the
\* primary host answers, or the alternative host is tried next.  The stop flag
\* is not read.
manual_probe_primary(t) ==
    /\ threads[t].at = "probe1"
    /\ IF ~vector_db
       THEN /\ Post("failure", <<>>)
            /\ Exit(t)
            /\ UNCHANGED units_after_stop
       ELSE /\ \E ok \in BOOLEAN : Move(t, IF ok THEN "ensure" ELSE "probe2")
            /\ CountUnit(t)
            /\ UNCHANGED after_queue
    /\ UNCHANGED <<syncVars, filterVars, netVars, unitVars, searchVars, debounceVars, platformVars, walkVars, uiShared, passRefs>>

\* find_and_set_active_host, second probe: the alternative host answers, or the
\* failure is posted and the thread returns.
manual_probe_alternative(t) ==
    /\ threads[t].at = "probe2"
    /\ \E ok \in BOOLEAN :
          IF ok THEN Move(t, "ensure") /\ UNCHANGED after_queue
          ELSE Exit(t) /\ Post("failure", <<>>)
    /\ CountUnit(t)
    /\ UNCHANGED <<syncVars, filterVars, netVars, unitVars, searchVars, debounceVars, platformVars, walkVars, uiShared, passRefs>>

\* _ensure_model_available: the model is there, or the error is posted.
manual_ensure_model(t) ==
    /\ threads[t].at = "ensure"
    /\ \E ok \in BOOLEAN :
          IF ok THEN Move(t, "plan") /\ UNCHANGED after_queue
          ELSE Exit(t) /\ Post("failure", <<>>)
    /\ UNCHANGED <<syncVars, filterVars, netVars, unitVars, searchVars, debounceVars, platformVars, walkVars, uiShared, passRefs, units_after_stop>>

\* auto_index_files.worker: get_files_to_index and the total_ops test.
worker_plan(t) ==
    /\ threads[t].at = "plan"
    /\ \E r \in 0..MaxUnits, i \in 0..MaxUnits :
          threads' = [threads EXCEPT ![t].n_rm = r, ![t].n_ix = i,
                                     ![t].at = IF r + i = 0 THEN "cc" ELSE "rm"]
    /\ UNCHANGED <<syncVars, filterVars, netVars, unitVars, searchVars, debounceVars, platformVars, walkVars, uiShared, passRefs, after_queue, units_after_stop>>

\* "for fp in to_remove: if stop_event.is_set(): break"
worker_rm_check(t) ==
    /\ threads[t].at = "rm"
    /\ Move(t, IF threads[t].n_rm = 0 \/ stop_indexing_flag THEN "ix" ELSE "rm_do")
    /\ UNCHANGED <<syncVars, filterVars, netVars, unitVars, searchVars, debounceVars, platformVars, walkVars, uiShared, passRefs, after_queue, units_after_stop>>

\* remove_file_from_index and the progress callback.
worker_rm_do(t) ==
    /\ threads[t].at = "rm_do"
    /\ threads' = [threads EXCEPT ![t].n_rm = @ - 1, ![t].at = "rm"]
    /\ CountUnit(t)
    /\ UNCHANGED <<syncVars, filterVars, netVars, unitVars, searchVars, debounceVars, platformVars, walkVars, uiShared, passRefs, after_queue>>

\* "for fp in to_index: if stop_event.is_set(): break"
worker_ix_check(t) ==
    /\ threads[t].at = "ix"
    /\ Move(t, IF threads[t].n_ix = 0 \/ stop_indexing_flag THEN "cc" ELSE "ix_do")
    /\ UNCHANGED <<syncVars, filterVars, netVars, unitVars, searchVars, debounceVars, platformVars, walkVars, uiShared, passRefs, after_queue, units_after_stop>>

\* The read, the embedding and the upsert of one file, and the progress callback.
worker_ix_do(t) ==
    /\ threads[t].at = "ix_do"
    /\ threads' = [threads EXCEPT ![t].n_ix = @ - 1, ![t].at = "ix"]
    /\ CountUnit(t)
    /\ UNCHANGED <<syncVars, filterVars, netVars, unitVars, searchVars, debounceVars, platformVars, walkVars, uiShared, passRefs, after_queue>>

\* The completion callbacks, statement by statement, in the worker thread.
\* The manual cc reads the flag, clears is_indexing, then clears the flag; the
\* cc of _trigger_reindex and _start_continuous_indexing clears is_indexing
\* and then reads the flag.
cc_read_stopped(t) ==
    /\ \/ threads[t].kind = "manual" /\ threads[t].at = "cc"
       \/ threads[t].kind # "manual" /\ threads[t].at = "cc_read"
    /\ threads' = [threads EXCEPT ![t].stopped = stop_indexing_flag,
                                  ![t].at = IF threads[t].kind = "manual" THEN "cc_idle"
                                            ELSE "cc_post"]
    /\ UNCHANGED <<syncVars, filterVars, netVars, unitVars, searchVars, debounceVars, platformVars, walkVars, uiShared, passRefs, after_queue, units_after_stop>>

cc_clear_is_indexing(t) ==
    /\ \/ threads[t].kind = "manual" /\ threads[t].at = "cc_idle"
       \/ threads[t].kind # "manual" /\ threads[t].at = "cc"
    /\ is_indexing' = FALSE
    /\ Move(t, IF threads[t].kind = "manual" THEN "cc_clear" ELSE "cc_read")
    /\ UNCHANGED <<syncRest, filterVars, netVars, unitVars, searchVars, debounceVars, platformVars, walkVars, stop_indexing_flag, uiShared, passRefs, after_queue, units_after_stop>>

cc_clear_flag(t) ==
    /\ threads[t].kind = "manual" /\ threads[t].at = "cc_clear"
    /\ stop_indexing_flag' = FALSE
    /\ Move(t, "cc_post")
    /\ UNCHANGED <<syncRest, filterVars, netVars, unitVars, searchVars, debounceVars, platformVars, walkVars, is_indexing, uiShared, passRefs, after_queue, units_after_stop>>

cc_post(t) ==
    /\ threads[t].at = "cc_post"
    /\ Post("done", <<threads[t].kind, threads[t].stopped>>)
    /\ Exit(t)
    /\ Forget(t)
    /\ UNCHANGED <<syncVars, filterVars, netVars, unitVars, searchVars, debounceVars, platformVars, walkVars, uiShared>>

NextUI ==
    \/ on_manual_index_click
    \/ debounce_reindex
    \/ trigger_reindex
    \/ on_vector_toggle
    \/ start_continuous_indexing
    \/ connect_worker
    \/ on_vector_db_ready
    \/ handle_manual_index_failure
    \/ index_finished
    \/ \E t \in DOMAIN threads : manual_probe_primary(t)
    \/ \E t \in DOMAIN threads : manual_probe_alternative(t)
    \/ \E t \in DOMAIN threads : manual_ensure_model(t)
    \/ \E t \in DOMAIN threads : worker_plan(t)
    \/ \E t \in DOMAIN threads : worker_rm_check(t)
    \/ \E t \in DOMAIN threads : worker_rm_do(t)
    \/ \E t \in DOMAIN threads : worker_ix_check(t)
    \/ \E t \in DOMAIN threads : worker_ix_do(t)
    \/ \E t \in DOMAIN threads : cc_read_stopped(t)
    \/ \E t \in DOMAIN threads : cc_clear_is_indexing(t)
    \/ \E t \in DOMAIN threads : cc_clear_flag(t)
    \/ \E t \in DOMAIN threads : cc_post(t)

SpecUI == InitUI /\ [][NextUI]_vars

\* A thread between its start and the "self.is_indexing = False" of its cc.
InPass(t) ==
    threads[t].at \notin
        (IF threads[t].kind = "manual" THEN {"cc_clear", "cc_post"}
         ELSE {"cc_read", "cc_post"})

\* A thread inside a unit that writes to the collection.
Writing(t) == threads[t].at \in {"rm_do", "ix_do"}

\* C1: at most one synchronization pass is active at any time, the pass is
\* marked by is_indexing, and so no two workers are inside a store write.
C1_OnePassAtATime ==
    /\ Cardinality({t \in DOMAIN threads : InPass(t)}) <= 1
    /\ Cardinality({t \in DOMAIN threads : Writing(t)}) <= 1
    /\ \A t \in DOMAIN threads : InPass(t) => is_indexing

\* A new pass writes while the thread of the pass before is still in the tail
\* of its completion callback.
C1_Witness ==
    \E t, u \in DOMAIN threads : t # u /\ Writing(u) /\ ~InPass(t)

\* C6: a pass for which a stop was requested finishes at most one further unit
\* of work (a removal, an indexing, a host probe).
C6_StopWithinOneUnit == units_after_stop <= 1

\* ------------------------------------------------------------- SpecFilter
\* The file tree: edits of the search text and of the exclusion patterns, the
\* mode toggle, the scan and search threads and the callbacks that render
\* their responses.  The project holds a.py and c.log, a.py is indexed, the
\* vector search is connected; the indexing workers are not scheduled here.

RemoveAt(seq, i) == SubSeq(seq, 1, i - 1) \o SubSeq(seq, i + 1, Len(seq))

InitFilter ==
    /\ fs = (A_PY :> 0 @@ C_LOG :> 0) /\ now = 0
    /\ exclude_patterns_var = <<>>
    /\ all_text_files = scan_all_files(DOMAIN fs, exclude_patterns_var)
    /\ vector_file_filter_var = DEFAULT_VECTOR_FILE_FILTER
    /\ is_indexing = FALSE
    /\ stop_indexing_flag = FALSE
    /\ last_cc = NoCall
    /\ collection = (A_PY :> make_meta(A_PY, 0))
    /\ pc = "idle"
    /\ all_files = <<>> /\ to_index = <<>> /\ to_remove = <<>>
    /\ rm_i = 0 /\ ix_i = 0 /\ indexed_c = 0 /\ removed_c = 0
    /\ indexedAtPlan = {} /\ diskAtPlan = {}
    /\ deletedByPass = {} /\ upsertedByPass = {}
    /\ hist = <<"off", <<>>>> /\ basis = <<"off", <<>>>>
    /\ vector_db = TRUE
    /\ vector_search_enabled = TRUE
    /\ vector_search_mode = FALSE
    /\ button_enabled = TRUE
    /\ threads = <<>>
    /\ cur_pass = 0
    /\ after_queue = <<>>
    /\ connect_pending = FALSE
    /\ continuous_timer = FALSE
    /\ reindex_job = FALSE
    /\ stop_req = 0
    /\ units_after_stop = 0
    /\ search_var = <<>>
    /\ last_exclusion_state = exclude_patterns_var
    /\ search_job = FALSE
    /\ scan_threads = <<>>
    /\ search_threads = <<>>
    /\ tree = View("directory", <<>>, <<>>)
    /\ latest = [mode |-> "filter", term |-> <<>>, excl |-> <<>>]
    /\ NetAtRest
    /\ UnitAtRest
    /\ SearchAtRest
    /\ DebounceAtRest
    /\ PlatformAtRest
    /\ WalkAtRest

filterFixed == <<fs, now, vector_file_filter_var, is_indexing, stop_indexing_flag, last_cc,
                 collection, pc, all_files, to_index, to_remove, rm_i, ix_i, indexed_c,
                 removed_c, indexedAtPlan, diskAtPlan, deletedByPass, upsertedByPass, hist,
                 basis, vector_db, vector_search_enabled, button_enabled, threads,
                 cur_pass, connect_pending, continuous_timer, reindex_job, stop_req,
                 units_after_stop, netVars, unitVars, searchVars, debounceVars, platformVars, walkVars>>

\* A write to the search entry: _debounce_search sets the 300 ms timer.
set_search_text ==
    /\ \E text \in SearchTexts \ {search_var} : search_var' = text
    /\ search_job' = TRUE
    /\ UNCHANGED <<filterFixed, exclude_patterns_var, all_text_files, vector_search_mode,
                   after_queue, last_exclusion_state, scan_threads, search_threads, tree,
                   latest>>

\* A write to the "Exclude Files" entry: _debounce_search as well.
set_exclude_patterns ==
    /\ \E patterns \in ExcludeChoices \ {exclude_patterns_var} :
          exclude_patterns_var' = patterns
    /\ search_job' = TRUE
    /\ UNCHANGED <<filterFixed, all_text_files, vector_search_mode, after_queue, search_var,
                   last_exclusion_state, scan_threads, search_threads, tree, latest>>

\* _perform_filter_or_search, run by the debounce timer.
debounced_filter_or_search ==
    /\ search_job
    /\ search_job' = FALSE
    /\ perform_filter_or_search(vector_search_mode)
    /\ UNCHANGED <<filterFixed, exclude_patterns_var, all_text_files, vector_search_mode,
                   after_queue, search_var>>

\* _on_search_enter: the Return key searches at once in vector mode.
on_search_enter ==
    /\ vector_search_mode
    /\ perform_vector_search(vector_search_mode)
    /\ UNCHANGED <<filterFixed, exclude_patterns_var, all_text_files, vector_search_mode,
                   after_queue, search_var, search_job>>

\* _scan_and_cache_all_files in a scan thread: _get_exclusion_regex reads the
\* exclusion entries when the thread gets there.
scan_read_regex(i) ==
    /\ scan_threads[i].at = "scan"
    /\ scan_threads' = [scan_threads EXCEPT ![i].at = "walk",
                                            ![i].regex = exclude_patterns_var]
    /\ UNCHANGED <<filterFixed, exclude_patterns_var, all_text_files, vector_search_mode,
                   after_queue, search_var, search_job, last_exclusion_state,
                   search_threads, tree, latest>>

\* The walk ends: the cache is replaced and the callback is posted with the
\* search term the thread was started with.
scan_and_repopulate(i) ==
    /\ scan_threads[i].at = "walk"
    /\ all_text_files' = scan_all_files(DOMAIN fs, scan_threads[i].regex)
    /\ Post("scan", scan_threads[i].term)
    /\ scan_threads' = RemoveAt(scan_threads, i)
    /\ UNCHANGED <<filterFixed, exclude_patterns_var, vector_search_mode, search_var,
                   search_job, last_exclusion_state, search_threads, tree, latest>>

\* callback of _scan_and_repopulate, in the UI thread.
scan_callback ==
    /\ after_queue # <<>> /\ Head(after_queue).cb = "scan"
    /\ after_queue' = Tail(after_queue)
    /\ tree' = repopulate_tree(files_for_term(all_text_files, Head(after_queue).arg))
    /\ UNCHANGED <<filterFixed, exclude_patterns_var, all_text_files, vector_search_mode,
                   search_var, search_job, last_exclusion_state, scan_threads,
                   search_threads, latest>>

\* sw of _perform_vector_search: the search returns and its results are posted.
sw(i) ==
    /\ Post("results", search_similar_files(search_threads[i], collection))
    /\ search_threads' = RemoveAt(search_threads, i)
    /\ UNCHANGED <<filterFixed, exclude_patterns_var, all_text_files, vector_search_mode,
                   search_var, search_job, last_exclusion_state, scan_threads, tree,
                   latest>>

\* The lambda sw posts: _display_search_results, in the UI thread.
results_callback ==
    /\ after_queue # <<>> /\ Head(after_queue).cb = "results"
    /\ after_queue' = Tail(after_queue)
    /\ tree' = display_search_results(Head(after_queue).arg)
    /\ UNCHANGED <<filterFixed, exclude_patterns_var, all_text_files, vector_search_mode,
                   search_var, search_job, last_exclusion_state, scan_threads,
                   search_threads, latest>>

NextFilter ==
    \/ set_search_text
    \/ set_exclude_patterns
    \/ debounced_filter_or_search
    \/ on_search_enter
    \/ on_vector_toggle
    \/ \E i \in 1..Len(scan_threads) : scan_read_regex(i)
    \/ \E i \in 1..Len(scan_threads) : scan_and_repopulate(i)
    \/ scan_callback
    \/ \E i \in 1..Len(search_threads) : sw(i)
    \/ results_callback

SpecFilter == InitFilter /\ [][NextFilter]_vars

\* No scan or search is running, no response waits to be rendered and no
\* debounce timer is set.
NothingInFlight ==
    scan_threads = <<>> /\ search_threads = <<>> /\ after_queue = <<>> /\ ~search_job

\* What the request issued last asks for: the files under its exclusion
\* patterns that match its term, or the search results for its query.
ResultOfLatest ==
    IF latest.mode = "filter"
    THEN repopulate_tree(files_for_term(scan_all_files(DOMAIN fs, latest.excl), latest.term))
    ELSE IF latest.term = <<>> THEN View("hint", <<>>, <<>>)
    ELSE display_search_results(search_similar_files(latest.term, collection))

\* C7: latest wins: once every scan and search has answered, the tree shows
\* the result of the request issued last.
C7_LatestWins == NothingInFlight => tree = ResultOfLatest

\* --------------------------------------------------------------- SpecUnit
\* One pass of auto_index_files with the body of its indexing loop opened
\* up: the read of the file, the metadata, the embedding request and the
\* upsert are steps of their own, and the stored metadata is the whole
\* dictionary of line 262.

\* What open(...).read() returns: an empty file, a blank one, one with text.
Contents == {<<>>, <<" ">>, <<"x">>}

\* Answers to POST /api/embed. The first three are transport failures, the
\* last four are answers with status 200 whose body is not what is expected.
EmbedResponses ==
    {"timeout", "connection_error", "status_500", "ok_list",
     "ok_no_field", "ok_field_not_list", "ok_body_not_object", "ok_body_not_json"}

TransportFailures == {"timeout", "connection_error", "status_500"}
MalformedResponses ==
    {"ok_no_field", "ok_field_not_list", "ok_body_not_object", "ok_body_not_json"}

\* What leaves generate_embedding: "list", "None" or the exception raised.
Raised == {"AttributeError", "ValueError"}

\* generate_embedding: the outcomes of one call. requests.exceptions
\* .RequestException is the only exception caught. r.json().get on a body
\* that is JSON but not an object raises AttributeError. r.json() on a body
\* that is not JSON raises requests' JSONDecodeError (a RequestException)
\* from requests 2.27 on and a plain ValueError before; the source does not
\* fix the version, so both are outcomes.
generate_embedding(available, url, r) ==
    IF ~available \/ url = "None" THEN {"None"}
    ELSE CASE r \in {"timeout", "connection_error"} -> {"None"}
           [] r = "status_500" -> {"None"}
           [] r = "ok_list" -> {"list"}
           [] r \in {"ok_no_field", "ok_field_not_list"} -> {"None"}
           [] r = "ok_body_not_object" -> {"AttributeError"}
           [] r = "ok_body_not_json" -> {"None", "ValueError"}

\* add_file_to_index after the embedding: True only when there is an
\* embedding and the upsert did not raise; every exception gives False.
add_file_to_index(embedding, store_ok) == embedding = "list" /\ store_ok

\* The metadata dictionary of line 262.
unit_meta(fp, content, clock, mtime) ==
    [file_path |-> fp, file_name |-> basename(fp), file_ext |-> splitext_ext(fp),
     indexed_at |-> clock, file_size |-> Len(content), file_mtime |-> mtime]

OLLAMA_BASE_URL == "http://localhost:11434"
OLLAMA_ALTERNATIVE_URL == "http://192.168.1.100:11434"

\* Either two text files on disk, both eligible, and nothing indexed; or one
\* file on disk and the entry of a file that was indexed by an earlier
\* session and has been deleted since. The connection was made earlier;
\* ollama_available is False after a failed manual start.
InitUnit ==
    /\ \/ fs = (A_PY :> 0 @@ C_LOG :> 0) /\ collection = EmptyFs
       \/ fs = (A_PY :> 0) /\ collection = (C_LOG :> unit_meta(C_LOG, <<"x">>, 0, 0))
    /\ now = 0
    /\ exclude_patterns_var = <<>>
    /\ all_text_files = scan_all_files(DOMAIN fs, exclude_patterns_var)
    /\ vector_file_filter_var = <<STAR_PY, STAR>>
    /\ is_indexing = FALSE
    /\ stop_indexing_flag = FALSE
    /\ last_cc = NoCall
    /\ pc = "idle"
    /\ all_files = <<>> /\ to_index = <<>> /\ to_remove = <<>>
    /\ rm_i = 0 /\ ix_i = 0 /\ indexed_c = 0 /\ removed_c = 0
    /\ indexedAtPlan = {} /\ diskAtPlan = {}
    /\ deletedByPass = {} /\ upsertedByPass = {}
    /\ hist = <<"off", <<>>>> /\ basis = <<"off", <<>>>>
    /\ vector_db = TRUE
    /\ vector_search_enabled = TRUE
    /\ vector_search_mode = TRUE
    /\ button_enabled = TRUE
    /\ threads = <<>>
    /\ cur_pass = 0
    /\ after_queue = <<>>
    /\ connect_pending = FALSE
    /\ continuous_timer = FALSE
    /\ reindex_job = FALSE
    /\ stop_req = 0
    /\ units_after_stop = 0
    /\ search_var = <<>>
    /\ last_exclusion_state = <<>>
    /\ search_job = FALSE
    /\ scan_threads = <<>>
    /\ search_threads = <<>>
    /\ tree = View("directory", <<>>, <<>>)
    /\ latest = [mode |-> "filter", term |-> <<>>, excl |-> <<>>]
    /\ connect_pc = "idle"
    /\ for_auto_indexing = FALSE
    /\ metered = FALSE
    /\ probes = NoProbes
    /\ requests_log = <<>>
    /\ active_ollama_url = OLLAMA_BASE_URL
    /\ ollama_available \in BOOLEAN
    /\ host_error = "None"
    /\ pull_stream = <<>>
    /\ frames_read = <<>>
    /\ status_log = <<>>
    /\ ensure_error = "None"
    /\ manual_index_status_label = <<>>
    /\ unit = NoUnit
    /\ outcomes = <<>>
    /\ events = <<>>
    /\ SearchAtRest
    /\ DebounceAtRest
    /\ PlatformAtRest
    /\ WalkAtRest

unitFixed == <<fs, now, appVars, is_indexing, stop_indexing_flag, last_cc,
               all_files, to_index, to_remove, rm_i, removed_c, histVars, hist,
               uiVars, filterVars, netVars, searchVars, debounceVars, platformVars, walkVars>>

\* History: one store call, embedding call or progress_callback call of the
\* pass. c and t are the arguments of a progress report.
Event(op, path, ok, c, t) == [op |-> op, path |-> path, ok |-> ok, c |-> c, t |-> t]

\* Mutant: op_c is raised after the report.
Report_mutFromZero(phase) ==
    Event(phase, <<>>, TRUE, rm_i + ix_i, Len(to_index) + Len(to_remove))

\* Mutant: the phases of the reports are exchanged.
Report_mutPhasesExchanged(phase) ==
    Event(IF phase = "removing" THEN "indexing" ELSE "removing", <<>>, TRUE,
          rm_i + ix_i + 1, Len(to_index) + Len(to_remove))

\* progress_callback(op_c, total_ops, phase) after op_c += 1.
Report(phase) ==
    Event(phase, <<>>, TRUE, rm_i + ix_i + 1, Len(to_index) + Len(to_remove))

\* worker: get_files_to_index, the sort and the total_ops test. When
\* collection.get raises, get_indexed_files returns {}: every file on disk
\* counts as not indexed and nothing is to be removed.
unit_plan ==
    /\ pc = "plan"
    /\ \E get_ok \in BOOLEAN :
          LET indexed == IF get_ok THEN get_indexed_files(collection) ELSE EmptyFs
              ti == sort_to_index(files_to_index(all_files, indexed, fs))
              tr == files_to_remove(all_files, indexed, fs)
          IN  /\ to_index' = ti
              /\ to_remove' = tr
              /\ pc' = IF Len(ti) + Len(tr) = 0 THEN "cc" ELSE "rm"
              /\ events' = <<Event("get", <<>>, get_ok, 0, 0)>>
    /\ outcomes' = <<>>
    /\ indexedAtPlan' = DOMAIN collection
    /\ diskAtPlan' = DOMAIN fs
    /\ basis' = hist
    /\ UNCHANGED <<fs, now, appVars, is_indexing, stop_indexing_flag, last_cc, collection,
                   all_files, rm_i, ix_i, indexed_c, removed_c,
                   deletedByPass, upsertedByPass, hist>>
    /\ UNCHANGED <<uiVars, filterVars, netVars, unit, searchVars, debounceVars, platformVars, walkVars>>

\* Mutant: a delete that raised is counted like one that succeeded.
unit_remove_mutCountsFailure ==
    /\ pc = "rm_do"
    /\ \E ok \in BOOLEAN :
          LET fp == to_remove[rm_i + 1]
          IN  /\ collection' = IF ok THEN delete(collection, fp) ELSE collection
              /\ removed_c' = removed_c + 1
              /\ deletedByPass' = IF ok THEN deletedByPass \cup {fp} ELSE deletedByPass
              /\ events' = events \o <<Event("delete", fp, ok, 0, 0), Report("removing")>>
              /\ outcomes' = Append(outcomes, IF ok THEN "removed" ELSE "remove_failed")
    /\ rm_i' = rm_i + 1
    /\ pc' = "rm"
    /\ UNCHANGED <<fs, now, appVars, is_indexing, stop_indexing_flag, last_cc,
                   all_files, to_index, to_remove, ix_i, indexed_c,
                   indexedAtPlan, diskAtPlan, upsertedByPass, basis, hist>>
    /\ UNCHANGED <<uiVars, filterVars, netVars, unit, searchVars, debounceVars, platformVars, walkVars>>

\* worker: remove_file_from_index for one path, removed_c, op_c and the
\* progress callback. A delete that raises returns False.
unit_remove ==
    /\ pc = "rm_do"
    /\ \E ok \in BOOLEAN :
          LET fp == to_remove[rm_i + 1]
          IN  /\ collection' = IF ok THEN delete(collection, fp) ELSE collection
              /\ removed_c' = IF ok THEN removed_c + 1 ELSE removed_c
              /\ deletedByPass' = IF ok THEN deletedByPass \cup {fp} ELSE deletedByPass
              /\ events' = events \o <<Event("delete", fp, ok, 0, 0), Report("removing")>>
              /\ outcomes' = Append(outcomes, IF ok THEN "removed" ELSE "remove_failed")
    /\ rm_i' = rm_i + 1
    /\ pc' = "rm"
    /\ UNCHANGED <<fs, now, appVars, is_indexing, stop_indexing_flag, last_cc,
                   all_files, to_index, to_remove, ix_i, indexed_c,
                   indexedAtPlan, diskAtPlan, upsertedByPass, basis, hist>>
    /\ UNCHANGED <<uiVars, filterVars, netVars, unit, searchVars, debounceVars, platformVars, walkVars>>

\* The unit ends: op_c += 1, the progress callback, the next iteration.
\* calls are the store and embedding calls the step made before.
EndUnit(how, calls) ==
    /\ unit' = NoUnit
    /\ outcomes' = Append(outcomes, how)
    /\ events' = events \o calls \o <<Report("indexing")>>
    /\ ix_i' = ix_i + 1
    /\ pc' = "ix"

\* Mutant: the content.strip() test is left out.
unit_read_mutEmbedsBlank ==
    /\ pc = "ix_do" /\ unit.at = "none"
    /\ \/ /\ EndUnit("unreadable", <<>>)
       \/ \E content \in Contents :
             /\ unit' = [unit EXCEPT !.at = "meta", !.content = content,
                                      !.read_mtime = fs[to_index[ix_i + 1]]]
             /\ UNCHANGED <<outcomes, events, ix_i, pc>>
    /\ UNCHANGED <<unitFixed, collection, indexed_c>>

\* worker: open and read the file. An OSError is caught by the loop's except
\* clause; a file that is empty after strip() is passed over. read_mtime is
\* history: the modification time the file had when f.read() returned.
unit_read ==
    /\ pc = "ix_do" /\ unit.at = "none"
    /\ \/ /\ EndUnit("unreadable", <<>>)
       \/ \E content \in Contents :
             IF strip(content) = <<>>
             THEN EndUnit("blank", <<>>)
             ELSE /\ unit' = [unit EXCEPT !.at = "meta", !.content = content,
                                           !.read_mtime = fs[to_index[ix_i + 1]]]
                  /\ UNCHANGED <<outcomes, events, ix_i, pc>>
    /\ UNCHANGED <<unitFixed, collection, indexed_c>>

\* worker: the metadata dictionary, with time.time() and os.path.getmtime.
unit_make_meta ==
    /\ pc = "ix_do" /\ unit.at = "meta"
    /\ LET fp == to_index[ix_i + 1]
       IN  unit' = [unit EXCEPT !.at = "embed",
                                !.meta = unit_meta(fp, unit.content, now, fs[fp])]
    /\ UNCHANGED <<unitFixed, collection, indexed_c, outcomes, events, ix_i, pc>>

\* add_file_to_index: the request of generate_embedding and what comes back.
unit_embed ==
    /\ pc = "ix_do" /\ unit.at = "embed"
    /\ \E r \in EmbedResponses :
          \E e \in generate_embedding(ollama_available, active_ollama_url, r) :
             unit' = [unit EXCEPT !.at = "upsert", !.response = r, !.embedding = e]
    /\ events' = Append(events, Event("embed", to_index[ix_i + 1], TRUE, 0, 0))
    /\ UNCHANGED <<unitFixed, collection, indexed_c, outcomes, ix_i, pc>>

\* How a unit that reached add_file_to_index ends.
unit_outcome(embedding, written) ==
    IF written THEN "written"
    ELSE IF embedding = "None" THEN "no_embedding"
    ELSE IF embedding \in Raised THEN "embed_raised"
    ELSE "store_error"

\* The collection.upsert call, made only with an embedding.
upsert_calls(fp, embedding, store_ok) ==
    IF embedding = "list" THEN <<Event("upsert", fp, store_ok, 0, 0)>> ELSE <<>>

\* Mutant: a file without an embedding ends the pass.
unit_upsert_mutAbortOnNone ==
    /\ pc = "ix_do" /\ unit.at = "upsert"
    /\ \E store_ok \in BOOLEAN :
          LET fp == to_index[ix_i + 1]
              written == add_file_to_index(unit.embedding, store_ok)
          IN  /\ collection' = IF written THEN upsert(collection, fp, unit.meta)
                                ELSE collection
              /\ indexed_c' = IF written THEN indexed_c + 1 ELSE indexed_c
              /\ unit' = NoUnit
              /\ outcomes' = Append(outcomes, unit_outcome(unit.embedding, written))
              /\ events' = events \o upsert_calls(fp, unit.embedding, store_ok)
                                  \o <<Report("indexing")>>
              /\ ix_i' = ix_i + 1
              /\ pc' = IF unit.embedding = "None" THEN "cc" ELSE "ix"
    /\ UNCHANGED unitFixed

\* add_file_to_index: the upsert, or False when there is no embedding or an
\* exception was raised; then indexed_c and the end of the unit.
unit_upsert ==
    /\ pc = "ix_do" /\ unit.at = "upsert"
    /\ \E store_ok \in BOOLEAN :
          LET fp == to_index[ix_i + 1]
              written == add_file_to_index(unit.embedding, store_ok)
          IN  /\ collection' = IF written THEN upsert(collection, fp, unit.meta)
                                ELSE collection
              /\ indexed_c' = IF written THEN indexed_c + 1 ELSE indexed_c
              /\ EndUnit(unit_outcome(unit.embedding, written),
                         upsert_calls(fp, unit.embedding, store_ok))
    /\ UNCHANGED unitFixed

\* worker: the thread function returns; its locals and the history of the
\* pass are gone.
unit_return ==
    /\ pc = "done"
    /\ pc' = "idle"
    /\ all_files' = <<>>
    /\ to_index' = <<>>
    /\ to_remove' = <<>>
    /\ rm_i' = 0
    /\ ix_i' = 0
    /\ indexed_c' = 0
    /\ removed_c' = 0
    /\ last_cc' = NoCall
    /\ indexedAtPlan' = {}
    /\ diskAtPlan' = {}
    /\ deletedByPass' = {}
    /\ upsertedByPass' = {}
    /\ basis' = Track(Unknown)
    /\ outcomes' = <<>>
    /\ events' = <<>>
    /\ UNCHANGED <<fs, now, appVars, is_indexing, stop_indexing_flag, collection, hist>>
    /\ UNCHANGED <<uiVars, filterVars, netVars, unit, searchVars, debounceVars, platformVars, walkVars>>

NextUnit ==
    \/ Tick \/ ModifyFile
    \/ StartPass \/ StopClick
    \/ unit_plan \/ RmCheck \/ unit_remove \/ IxCheck
    \/ unit_read \/ unit_make_meta \/ unit_embed \/ unit_upsert
    \/ Complete \/ unit_return

SpecUnit == InitUnit /\ [][NextUnit]_vars

\* The plan has just been computed from the stored metadata: no unit of the
\* pass has run, so the store and the disk are those the plan was computed
\* from, and collection.get did not fail.
PlanFresh ==
    /\ pc \in {"rm", "ix", "cc"} /\ rm_i = 0 /\ ix_i = 0
    /\ events # <<>> /\ events[1].ok

\* The indexed catalog paths the diff step decides staleness for.
IndexedCatalogPaths ==
    {p \in Range(all_files) : p \in DOMAIN collection /\ p \in DOMAIN fs /\ ~is_image(p)}

\* C11: the diff step takes an indexed catalog path as stale exactly when the
\* file's modification time is newer than the file_mtime (sourceModifiedAt)
\* recorded in its entry; no other stored value decides.
C11_StaleByStoredMtime ==
    PlanFresh =>
        \A p \in IndexedCatalogPaths :
            (p \in Range(to_index)) <=> (fs[p] > collection[p].file_mtime)

\* ------------------------------------------------------------ SpecConnect
\* The thread that connects to Ollama: find_and_set_active_host and then
\* _ensure_model_available, called by _connect_worker (for_auto_indexing
\* True) or by _manual_index_worker (for_auto_indexing False), one HTTP
\* request per step.

MaxFrames == 2

\* Answers to GET /api/version and to the probe POST /api/embed: status 200,
\* another status, or a requests.exceptions.RequestException.
ProbeAnswers == {"200", "other_status", "exception"}

\* Answers to GET /api/ps: a model with size_vram > 0 is loaded, none is,
\* another status, a RequestException, or a 200 body that r.json().get or
\* the any(...) over it cannot process (e.g. "models": null).
GpuAnswers == {"gpu", "no_gpu", "other_status", "exception", "malformed"}

\* Answers to POST /api/pull: a stream, raise_for_status() raising, or a
\* RequestException of the request itself.
PullAnswers == {"stream", "http_error", "exception"}

\* is_on_metered_network: the stub returns False whatever the network is.
is_on_metered_network == FALSE

METERED_ERROR == "Primary Ollama unreachable; cannot try alternative on metered network."
NO_HOST_ERROR == "No reachable Ollama instance found."
PULL_UNAVAILABLE_ERROR == "Model pull finished but model is still not available."
COMMUNICATION_ERROR == "Failed to communicate with Ollama"
FRAME_ERROR == "pull model manifest: file does not exist"

\* Lines of the pull stream. A line is empty, is not a JSON object, or is an
\* object with some of the keys error, status, total and completed.
Frame(kind, total, completed) == [kind |-> kind, total |-> total, completed |-> completed]
F_EMPTY == Frame("empty", 0, 0)
F_GARBAGE == Frame("garbage", 0, 0)
F_ERROR == Frame("error", 0, 0)
F_STATUS == Frame("status", 0, 0)
F_HALF == Frame("status_counters", 2, 1)
F_ZERO == Frame("status_counters", 0, 0)
F_COUNTERS == Frame("counters", 2, 1)
Frames == {F_EMPTY, F_GARBAGE, F_ERROR, F_STATUS, F_HALF, F_ZERO, F_COUNTERS}

RECURSIVE SeqsUpTo(_, _)
SeqsUpTo(S, n) ==
    IF n = 0 THEN {<<>>}
    ELSE LET shorter == SeqsUpTo(S, n - 1)
         IN  shorter \cup {Append(s, x) : s \in shorter, x \in S}

Streams == SeqsUpTo(Frames, MaxFrames)

\* Messages handed to status_callback. The percentage is kept in tenths, as
\* the format {p:.1f} prints it.
Msg(text, arg) == [text |-> text, arg |-> arg]
percent_tenths(completed, total) ==
    IF total > 0 THEN (completed * 1000) \div total ELSE 0

\* Mutant: counters are not turned into a percentage.
frame_messages_mutNoPercent(f) ==
    IF f.kind \in {"status", "status_counters"} THEN <<Msg("Status", 0)>> ELSE <<>>

\* What the loop body of _ensure_model_available hands to status_callback
\* for one line of the stream: nothing, or one message.
frame_messages(f) ==
    IF f.kind = "status_counters"
    THEN <<Msg("Downloading model", percent_tenths(f.completed, f.total))>>
    ELSE IF f.kind = "status" THEN <<Msg("Status", 0)>>
    ELSE <<>>

Request(method, url, path) == [method |-> method, url |-> url, path |-> path]

InitConnect ==
    /\ fs = (A_PY :> 0) /\ now = 0
    /\ exclude_patterns_var = <<>>
    /\ all_text_files = scan_all_files(DOMAIN fs, exclude_patterns_var)
    /\ vector_file_filter_var = DEFAULT_VECTOR_FILE_FILTER
    /\ is_indexing = FALSE
    /\ stop_indexing_flag = FALSE
    /\ last_cc = NoCall
    /\ collection = (C_LOG :> make_meta(C_LOG, 0))
    /\ pc = "idle"
    /\ all_files = <<>> /\ to_index = <<>> /\ to_remove = <<>>
    /\ rm_i = 0 /\ ix_i = 0 /\ indexed_c = 0 /\ removed_c = 0
    /\ indexedAtPlan = {} /\ diskAtPlan = {}
    /\ deletedByPass = {} /\ upsertedByPass = {}
    /\ hist = <<"off", <<>>>> /\ basis = <<"off", <<>>>>
    /\ vector_db = TRUE
    /\ vector_search_enabled = FALSE
    /\ vector_search_mode = TRUE
    /\ button_enabled = TRUE
    /\ threads = <<>>
    /\ cur_pass = 0
    /\ after_queue = <<>>
    /\ connect_pending = TRUE
    /\ continuous_timer = FALSE
    /\ reindex_job = FALSE
    /\ stop_req = 0
    /\ units_after_stop = 0
    /\ search_var = <<>>
    /\ last_exclusion_state = <<>>
    /\ search_job = FALSE
    /\ scan_threads = <<>>
    /\ search_threads = <<>>
    /\ tree = View("directory", <<>>, <<>>)
    /\ latest = [mode |-> "filter", term |-> <<>>, excl |-> <<>>]
    /\ connect_pc = "start"
    /\ for_auto_indexing = TRUE
    /\ metered \in BOOLEAN
    /\ probes = NoProbes
    /\ requests_log = <<>>
    /\ active_ollama_url = "None"
    /\ ollama_available = FALSE
    /\ host_error = "None"
    /\ pull_stream = <<>>
    /\ frames_read = <<>>
    /\ status_log = <<>>
    /\ ensure_error = "None"
    /\ manual_index_status_label = <<>>
    /\ unit = NoUnit
    /\ outcomes = <<>>
    /\ events = <<>>
    /\ SearchAtRest
    /\ DebounceAtRest
    /\ PlatformAtRest
    /\ WalkAtRest

\* What the steps of the connecting thread leave alone.
otherThanConnect == <<syncVars, uiVars, filterVars, unitVars, searchVars, debounceVars, platformVars, walkVars, manual_index_status_label>>

\* find_and_set_active_host: GET <primary>/api/version.
probe_primary ==
    /\ connect_pc = "start"
    /\ \E a \in ProbeAnswers :
          /\ probes' = [probes EXCEPT !.primary = a]
          /\ connect_pc' = IF a = "200" THEN "gpu" ELSE "metered"
    /\ requests_log' = Append(requests_log, Request("GET", OLLAMA_BASE_URL, "/api/version"))
    /\ UNCHANGED <<for_auto_indexing, metered, active_ollama_url, ollama_available,
                   host_error, pull_stream, frames_read, status_log, ensure_error>>
    /\ UNCHANGED otherThanConnect

\* The test "self._host_has_gpu(OLLAMA_BASE_URL) or not for_auto_indexing":
\* the left operand is evaluated first, so GET <primary>/api/ps is issued
\* whatever for_auto_indexing is. An exception other than RequestException
\* leaves _host_has_gpu and find_and_set_active_host and ends the thread.
host_has_gpu ==
    /\ connect_pc = "gpu"
    /\ \E g \in GpuAnswers :
          /\ probes' = [probes EXCEPT !.gpu = g]
          /\ IF g = "malformed"
             THEN /\ connect_pc' = "crashed"
                  /\ UNCHANGED active_ollama_url
             ELSE IF g = "gpu" \/ ~for_auto_indexing
             THEN /\ active_ollama_url' = OLLAMA_BASE_URL
                  /\ connect_pc' = "host_ok"
             ELSE /\ connect_pc' = "metered"
                  /\ UNCHANGED active_ollama_url
    /\ requests_log' = Append(requests_log, Request("GET", OLLAMA_BASE_URL, "/api/ps"))
    /\ UNCHANGED <<for_auto_indexing, metered, ollama_available,
                   host_error, pull_stream, frames_read, status_log, ensure_error>>
    /\ UNCHANGED otherThanConnect

\* find_and_set_active_host: the is_on_metered_network() test.
check_metered ==
    /\ connect_pc = "metered"
    /\ IF is_on_metered_network
       THEN /\ host_error' = METERED_ERROR
            /\ connect_pc' = "host_failed"
       ELSE /\ connect_pc' = "alternative"
            /\ UNCHANGED host_error
    /\ UNCHANGED <<for_auto_indexing, metered, probes, requests_log, active_ollama_url,
                   ollama_available, pull_stream, frames_read, status_log, ensure_error>>
    /\ UNCHANGED otherThanConnect

\* find_and_set_active_host: GET <alternative>/api/version.
probe_alternative ==
    /\ connect_pc = "alternative"
    /\ \E a \in ProbeAnswers :
          /\ probes' = [probes EXCEPT !.alternative = a]
          /\ IF a = "200"
             THEN /\ active_ollama_url' = OLLAMA_ALTERNATIVE_URL
                  /\ connect_pc' = "host_ok"
                  /\ UNCHANGED host_error
             ELSE /\ host_error' = NO_HOST_ERROR
                  /\ connect_pc' = "host_failed"
                  /\ UNCHANGED active_ollama_url
    /\ requests_log' = Append(requests_log,
                              Request("GET", OLLAMA_ALTERNATIVE_URL, "/api/version"))
    /\ UNCHANGED <<for_auto_indexing, metered, ollama_available,
                   pull_stream, frames_read, status_log, ensure_error>>
    /\ UNCHANGED otherThanConnect

\* The caller after a host was found: _connect_worker sets ollama_available
\* before provisioning, _manual_index_worker after it.
begin_ensure ==
    /\ connect_pc = "host_ok"
    /\ ollama_available' = IF for_auto_indexing THEN TRUE ELSE ollama_available
    /\ connect_pc' = "ensure"
    /\ UNCHANGED <<for_auto_indexing, metered, probes, requests_log, active_ollama_url,
                   host_error, pull_stream, frames_read, status_log, ensure_error>>
    /\ UNCHANGED otherThanConnect

\* _ensure_model_available: the first probe POST /api/embed.
ensure_probe ==
    /\ connect_pc = "ensure"
    /\ \E a \in ProbeAnswers :
          /\ probes' = [probes EXCEPT !.model = a]
          /\ CASE a = "200" ->
                 /\ status_log' = Append(status_log, Msg("is available", 0))
                 /\ connect_pc' = "ready"
                 /\ UNCHANGED ensure_error
            [] a = "other_status" ->
                 /\ status_log' = Append(status_log, Msg("not found. Pulling...", 0))
                 /\ connect_pc' = "pull"
                 /\ UNCHANGED ensure_error
            [] a = "exception" ->
                 /\ ensure_error' = COMMUNICATION_ERROR
                 /\ connect_pc' = "ensure_failed"
                 /\ UNCHANGED status_log
    /\ requests_log' = Append(requests_log, Request("POST", active_ollama_url, "/api/embed"))
    /\ UNCHANGED <<for_auto_indexing, metered, active_ollama_url, ollama_available,
                   host_error, pull_stream, frames_read>>
    /\ UNCHANGED otherThanConnect

\* _ensure_model_available: POST /api/pull and raise_for_status().
ensure_pull ==
    /\ connect_pc = "pull"
    /\ \E a \in PullAnswers :
          IF a = "stream"
          THEN /\ \E s \in Streams : pull_stream' = s
               /\ connect_pc' = "stream"
               /\ UNCHANGED ensure_error
          ELSE /\ ensure_error' = COMMUNICATION_ERROR
               /\ connect_pc' = "ensure_failed"
               /\ UNCHANGED pull_stream
    /\ requests_log' = Append(requests_log, Request("POST", active_ollama_url, "/api/pull"))
    /\ UNCHANGED <<for_auto_indexing, metered, probes, active_ollama_url, ollama_available,
                   host_error, frames_read, status_log>>
    /\ UNCHANGED otherThanConnect

\* Mutant: the loop goes on after an error frame.
ensure_frame_mutIgnoreError ==
    /\ connect_pc = "stream" /\ pull_stream # <<>>
    /\ LET f == Head(pull_stream)
       IN  /\ frames_read' = Append(frames_read, f)
           /\ pull_stream' = Tail(pull_stream)
           /\ CASE f.kind = "garbage" ->
                     /\ ensure_error' = "JSONDecodeError"
                     /\ connect_pc' = "ensure_failed"
                     /\ UNCHANGED status_log
                [] OTHER ->
                     /\ status_log' = status_log \o frame_messages(f)
                     /\ UNCHANGED <<ensure_error, connect_pc>>
    /\ UNCHANGED <<for_auto_indexing, metered, probes, requests_log, active_ollama_url,
                   ollama_available, host_error>>
    /\ UNCHANGED otherThanConnect

\* _ensure_model_available: one line of pull_response.iter_lines().
ensure_frame ==
    /\ connect_pc = "stream" /\ pull_stream # <<>>
    /\ LET f == Head(pull_stream)
       IN  /\ frames_read' = Append(frames_read, f)
           /\ pull_stream' = Tail(pull_stream)
           /\ CASE f.kind = "garbage" ->
                     /\ ensure_error' = "JSONDecodeError"
                     /\ connect_pc' = "ensure_failed"
                     /\ UNCHANGED status_log
                [] f.kind = "error" ->
                     /\ ensure_error' = FRAME_ERROR
                     /\ connect_pc' = "ensure_failed"
                     /\ UNCHANGED status_log
                [] OTHER ->
                     /\ status_log' = status_log \o frame_messages(f)
                     /\ UNCHANGED <<ensure_error, connect_pc>>
    /\ UNCHANGED <<for_auto_indexing, metered, probes, requests_log, active_ollama_url,
                   ollama_available, host_error>>
    /\ UNCHANGED otherThanConnect

\* The connection breaks while the stream is read: iter_lines() raises a
\* RequestException.
ensure_stream_lost ==
    /\ connect_pc = "stream"
    /\ ensure_error' = COMMUNICATION_ERROR
    /\ connect_pc' = "ensure_failed"
    /\ UNCHANGED <<for_auto_indexing, metered, probes, requests_log, active_ollama_url,
                   ollama_available, host_error, pull_stream, frames_read, status_log>>
    /\ UNCHANGED otherThanConnect

\* Mutant: a transport failure of the second probe is taken for a missing model.
ensure_retry_mutOneError ==
    /\ connect_pc = "stream" /\ pull_stream = <<>>
    /\ \E a \in ProbeAnswers :
          /\ probes' = [probes EXCEPT !.retry = a]
          /\ IF a = "200"
             THEN /\ status_log' = Append(status_log, Msg("successfully installed", 0))
                  /\ connect_pc' = "ready"
                  /\ UNCHANGED ensure_error
             ELSE /\ ensure_error' = PULL_UNAVAILABLE_ERROR
                  /\ connect_pc' = "ensure_failed"
                  /\ UNCHANGED status_log
    /\ requests_log' = Append(requests_log, Request("POST", active_ollama_url, "/api/embed"))
    /\ UNCHANGED <<for_auto_indexing, metered, active_ollama_url, ollama_available,
                   host_error, pull_stream, frames_read>>
    /\ UNCHANGED otherThanConnect

\* _ensure_model_available: the stream has ended; the second probe.
ensure_retry ==
    /\ connect_pc = "stream" /\ pull_stream = <<>>
    /\ \E a \in ProbeAnswers :
          /\ probes' = [probes EXCEPT !.retry = a]
          /\ CASE a = "200" ->
                 /\ status_log' = Append(status_log, Msg("successfully installed", 0))
                 /\ connect_pc' = "ready"
                 /\ UNCHANGED ensure_error
            [] a = "other_status" ->
                 /\ ensure_error' = PULL_UNAVAILABLE_ERROR
                 /\ connect_pc' = "ensure_failed"
                 /\ UNCHANGED status_log
            [] a = "exception" ->
                 /\ ensure_error' = COMMUNICATION_ERROR
                 /\ connect_pc' = "ensure_failed"
                 /\ UNCHANGED status_log
    /\ requests_log' = Append(requests_log, Request("POST", active_ollama_url, "/api/embed"))
    /\ UNCHANGED <<for_auto_indexing, metered, active_ollama_url, ollama_available,
                   host_error, pull_stream, frames_read>>
    /\ UNCHANGED otherThanConnect

\* The caller after provisioning. _connect_worker sets ollama_available and
\* reports completion(True, ...). _manual_index_worker sets ollama_available
\* and goes on to auto_index_files with the eligible files.
connect_succeeded ==
    /\ connect_pc = "ready"
    /\ ollama_available' = TRUE
    /\ connect_pc' = "connected"
    /\ IF for_auto_indexing
       THEN UNCHANGED <<pc, all_files, last_cc>>
       ELSE /\ all_files' = get_vector_eligible_files(all_text_files, vector_file_filter_var)
            /\ last_cc' = NoCall
            /\ pc' = "plan"
    /\ UNCHANGED <<for_auto_indexing, metered, probes, requests_log, active_ollama_url,
                   host_error, pull_stream, frames_read, status_log, ensure_error,
                   manual_index_status_label>>
    /\ UNCHANGED <<fs, now, appVars, is_indexing, stop_indexing_flag, collection,
                   to_index, to_remove, rm_i, ix_i, indexed_c, removed_c, histVars, hist>>
    /\ UNCHANGED <<uiVars, filterVars, unitVars, searchVars, debounceVars, platformVars, walkVars>>

\* The caller after a failure. _connect_worker sets ollama_available False
\* and reports completion(False, ...); _manual_index_worker posts
\* _handle_manual_index_failure and returns.
connect_failed ==
    /\ connect_pc \in {"host_failed", "ensure_failed"}
    /\ IF for_auto_indexing
       THEN /\ ollama_available' = FALSE
            /\ connect_pc' = "disconnected"
       ELSE /\ connect_pc' = "failure_posted"
            /\ UNCHANGED ollama_available
    /\ UNCHANGED <<for_auto_indexing, metered, probes, requests_log, active_ollama_url,
                   host_error, pull_stream, frames_read, status_log, ensure_error>>
    /\ UNCHANGED otherThanConnect

\* The text _manual_index_worker hands to _handle_manual_index_failure: the
\* error of find_and_set_active_host, or f"Model error: {e}".
failure_text ==
    IF host_error # "None" THEN <<host_error>> ELSE <<"Model error: ", ensure_error>>

uiButButton == <<vector_db, vector_search_enabled, vector_search_mode, threads, cur_pass,
                 after_queue, connect_pending, continuous_timer, reindex_job, stop_req,
                 units_after_stop>>

\* Mutant: the handler leaves is_indexing set.
manual_index_failure_mutStaysBusy ==
    /\ connect_pc = "failure_posted"
    /\ UNCHANGED is_indexing
    /\ ollama_available' = FALSE
    /\ button_enabled' = FALSE
    /\ manual_index_status_label' = failure_text
    /\ connect_pc' = "disconnected"
    /\ UNCHANGED <<for_auto_indexing, metered, probes, requests_log, active_ollama_url,
                   host_error, pull_stream, frames_read, status_log, ensure_error>>
    /\ UNCHANGED <<syncRest, stop_indexing_flag, uiButButton, filterVars, unitVars, searchVars, debounceVars, platformVars, walkVars>>

\* _handle_manual_index_failure, in the UI thread.
manual_index_failure ==
    /\ connect_pc = "failure_posted"
    /\ is_indexing' = FALSE
    /\ ollama_available' = FALSE
    /\ button_enabled' = FALSE
    /\ manual_index_status_label' = failure_text
    /\ connect_pc' = "disconnected"
    /\ UNCHANGED <<for_auto_indexing, metered, probes, requests_log, active_ollama_url,
                   host_error, pull_stream, frames_read, status_log, ensure_error>>
    /\ UNCHANGED <<syncRest, stop_indexing_flag, uiButButton, filterVars, unitVars, searchVars, debounceVars, platformVars, walkVars>>

\* on_manual_index_click with no pass running: the label is cleared,
\* is_indexing set, the stop flag cleared, and _manual_index_worker started;
\* it resolves and provisions again, on whatever network the machine is now.
manual_connect ==
    /\ connect_pc \in {"connected", "disconnected"}
    /\ vector_search_mode /\ button_enabled
    /\ ~is_indexing /\ pc = "idle"
    /\ manual_index_status_label' = <<>>
    /\ is_indexing' = TRUE
    /\ stop_indexing_flag' = FALSE
    /\ connect_pc' = "start"
    /\ for_auto_indexing' = FALSE
    /\ metered' \in BOOLEAN
    /\ probes' = NoProbes
    /\ requests_log' = <<>>
    /\ host_error' = "None"
    /\ pull_stream' = <<>>
    /\ frames_read' = <<>>
    /\ status_log' = <<>>
    /\ ensure_error' = "None"
    /\ UNCHANGED <<active_ollama_url, ollama_available>>
    /\ UNCHANGED <<syncRest, uiVars, filterVars, unitVars, searchVars, debounceVars, platformVars, walkVars>>

NextConnect ==
    \/ probe_primary \/ host_has_gpu \/ check_metered \/ probe_alternative
    \/ begin_ensure \/ ensure_probe \/ ensure_pull \/ ensure_frame
    \/ ensure_stream_lost \/ ensure_retry
    \/ connect_succeeded \/ connect_failed \/ manual_index_failure \/ manual_connect
    \/ Plan \/ RmCheck \/ RmDo \/ IxCheck \/ IxDo \/ Complete \/ Return

SpecConnect == InitConnect /\ [][NextConnect]_vars

\* ------------------------------------------ properties of host resolution
\* find_and_set_active_host has returned or was left by an exception.
ResolutionEnded == connect_pc \notin {"start", "gpu", "metered", "alternative"}

\* A probe was answered by something other than status 200.
Unreachable(a) == a \in {"other_status", "exception"}

AlternativeProbed ==
    \E i \in 1..Len(requests_log) : requests_log[i].url = OLLAMA_ALTERNATIVE_URL

CapabilityProbed ==
    \E i \in 1..Len(requests_log) : requests_log[i].path = "/api/ps"

\* C12: on a metered network with the primary host unreachable, host
\* resolution returns the metered-network error and never sends a request
\* to the alternative host.
C12_MeteredNeverTriesAlternative ==
    (metered /\ Unreachable(probes.primary)) =>
        /\ ~AlternativeProbed
        /\ ResolutionEnded => host_error = METERED_ERROR

\* C13: the two errors are truthful: the metered-network error is returned
\* only when the primary host is unreachable and the network is metered, the
\* no-host error only when neither the primary nor the alternative host is
\* reachable.
C13_ErrorsTruthful ==
    /\ host_error = METERED_ERROR => (Unreachable(probes.primary) /\ metered)
    /\ host_error = NO_HOST_ERROR =>
          (Unreachable(probes.primary) /\ Unreachable(probes.alternative))

\* C14: a reachable primary host is accepted, with no error and no request
\* to the alternative host: without a capability probe when acceleration is
\* not required, and after the capability probe found a GPU when it is.
C14_PrimaryAccepted ==
    (probes.primary = "200" /\ ResolutionEnded) =>
        /\ ~for_auto_indexing =>
              /\ ~CapabilityProbed
              /\ active_ollama_url = OLLAMA_BASE_URL
              /\ host_error = "None"
              /\ ~AlternativeProbed
        /\ (for_auto_indexing /\ probes.gpu = "gpu") =>
              /\ active_ollama_url = OLLAMA_BASE_URL
              /\ host_error = "None"
              /\ ~AlternativeProbed

\* ----------------------------------------- properties of the provisioning
\* _ensure_model_available has returned or raised.
ProvisioningEnded ==
    probes.model # "none"
    /\ connect_pc \in {"ready", "ensure_failed", "connected", "disconnected"}

RECURSIVE CountRequests(_, _)
CountRequests(log, path) ==
    IF log = <<>> THEN 0
    ELSE (IF Head(log).path = path THEN 1 ELSE 0) + CountRequests(Tail(log), path)

EmbedProbes == CountRequests(requests_log, "/api/embed")
PullRequests == CountRequests(requests_log, "/api/pull")

\* The loop over the stream ran to its end: the second probe was sent.
Retried == probes.retry # "none"

\* What is common to the claim and its amendment: at most two probes; a
\* successful first probe ends with success and no pull; the retry is sent
\* once, after a pull whose stream was read to its end with no error frame.
ProbesAtMostTwice ==
    /\ EmbedProbes <= 2
    /\ PullRequests <= 1
    /\ probes.model = "200" =>
          /\ EmbedProbes = 1 /\ PullRequests = 0 /\ ~Retried
          /\ ensure_error = "None"
    /\ Retried =>
          /\ EmbedProbes = 2 /\ PullRequests = 1
          /\ pull_stream = <<>>
          /\ \A i \in 1..Len(frames_read) : frames_read[i].kind # "error"

\* C15 as claimed: provisioning probes at most twice, and after the retry it
\* succeeds iff the retry succeeded and otherwise fails with the
\* pull-finished-but-unavailable error.
C15_RetryDecides ==
    /\ ProbesAtMostTwice
    /\ (Retried /\ ProvisioningEnded) =>
          IF probes.retry = "200" THEN ensure_error = "None"
          ELSE ensure_error = PULL_UNAVAILABLE_ERROR

\* C15 amended: after the retry provisioning succeeds iff the retry was
\* answered 200; it fails with the pull-finished-but-unavailable error when
\* the retry was answered with another status, and with the communication
\* error when the retry could not be transported.
C15_RetryDecidesByAnswer ==
    /\ ProbesAtMostTwice
    /\ (Retried /\ ProvisioningEnded) =>
          CASE probes.retry = "200" -> ensure_error = "None"
            [] probes.retry = "other_status" -> ensure_error = PULL_UNAVAILABLE_ERROR
            [] probes.retry = "exception" -> ensure_error = COMMUNICATION_ERROR

\* The retry after a pull with frames could not be transported.
C15_Witness ==
    /\ ProvisioningEnded
    /\ frames_read # <<>>
    /\ probes.retry = "exception"
    /\ ensure_error = COMMUNICATION_ERROR

\* The message one line of the stream is to produce. A frame with a status
\* gives one message: a percentage when it has both counters, else text.
\* With every_frame, a frame that has counters and no status gives one too.
MessageOf(f, every_frame) ==
    IF f.kind = "status_counters" \/ (every_frame /\ f.kind = "counters")
    THEN <<Msg("Downloading model",
               IF f.total = 0 THEN 0 ELSE (f.completed * 1000) \div f.total)>>
    ELSE IF f.kind = "status" THEN <<Msg("Status", 0)>>
    ELSE <<>>

RECURSIVE MessagesOf(_, _)
MessagesOf(lines, every_frame) ==
    IF lines = <<>> THEN <<>>
    ELSE MessageOf(Head(lines), every_frame) \o MessagesOf(Tail(lines), every_frame)

\* The status_callback calls of a provisioning that pulls.
PullLog(every_frame) ==
    <<Msg("not found. Pulling...", 0)>>
    \o MessagesOf(frames_read, every_frame)
    \o (IF probes.retry = "200" THEN <<Msg("successfully installed", 0)>> ELSE <<>>)

\* C16: an error frame in the pull stream aborts provisioning at once with
\* that frame's error: it is the last line read, nothing of it or after it
\* reaches the status callback, and the second probe is not sent.
C16_ErrorFrameAborts ==
    \A i \in 1..Len(frames_read) :
        frames_read[i].kind = "error" =>
            /\ i = Len(frames_read)
            /\ connect_pc \in {"ensure_failed", "failure_posted", "disconnected"}
            /\ ensure_error = FRAME_ERROR
            /\ status_log = <<Msg("not found. Pulling...", 0)>>
                            \o MessagesOf(SubSeq(frames_read, 1, i - 1), FALSE)
            /\ ~Retried
            /\ EmbedProbes = 1

\* An error frame was read and a line of the stream is left unread.
C16_Witness ==
    /\ pull_stream # <<>>
    /\ frames_read # <<>>
    /\ frames_read[Len(frames_read)].kind = "error"
    /\ connect_pc = "ensure_failed"

\* C17 as claimed: every frame read from the pull stream is forwarded to the
\* status callback once and in order, frames with byte counters as a
\* percentage and the others as text.
C17_EveryFrameForwarded ==
    probes.model = "other_status" => status_log = PullLog(TRUE)

\* C17 amended: every frame with a status field is forwarded once and in
\* order, as the percentage completed/total*100 (0 when total is 0) when it
\* has both counters and as text otherwise; empty lines and frames without
\* a status field produce no message.
C17_StatusFramesForwarded ==
    probes.model = "other_status" => status_log = PullLog(FALSE)

\* A stream with two progress frames, one of them with total 0, was read to
\* its end and both percentages were forwarded.
C17_Witness ==
    /\ Retried
    /\ frames_read = <<F_ZERO, F_HALF>>
    /\ status_log[2] = Msg("Downloading model", 0)
    /\ status_log[3] = Msg("Downloading model", 500)

\* ------------------------------- properties of a manual start that fails
\* The provisioning of a manual start has failed.
ProvisioningFailed == ~for_auto_indexing /\ ensure_error # "None"

\* A manual start is under way and has not reached auto_index_files.
ManualStartOpen == ~for_auto_indexing /\ connect_pc # "connected"

\* C18: when the provisioning of a requested synchronization fails, the pass
\* is aborted before any store write: no worker plan exists, no step of the
\* attempt changes the store, and once the failure is handled the error is
\* shown and is_indexing is false again.
C18_FailureAbortsPass ==
    /\ [](ProvisioningFailed =>
            /\ pc = "idle" /\ to_index = <<>> /\ to_remove = <<>>
            /\ connect_pc \in {"ensure_failed", "failure_posted", "disconnected"}
            /\ connect_pc = "disconnected" =>
                  /\ ~is_indexing
                  /\ ~ollama_available
                  /\ manual_index_status_label = <<"Model error: ", ensure_error>>)
    /\ [][ManualStartOpen' => collection' = collection]_vars

\* A manual start failed on an error frame after an earlier manual pass had
\* written an entry; the failure has been handled.
C18_Witness ==
    /\ ProvisioningFailed
    /\ ensure_error = FRAME_ERROR
    /\ connect_pc = "disconnected"
    /\ A_PY \in DOMAIN collection
    /\ ~is_indexing

\* ------------------------------------------------- properties of a unit
\* C19: generate_embedding returns None and does not raise when the request
\* fails in transport (timeout, connection error, non-200 status) or the
\* response is malformed (no embedding field, a field that is not a list, a
\* body that is not a JSON object).
C19_EmbedReturnsNone ==
    unit.response \in (TransportFailures \cup MalformedResponses) =>
        unit.embedding = "None"

\* The step that ends a unit whose embedding came back as None.
NoneUnitEnds ==
    /\ pc = "ix_do" /\ unit.at = "upsert" /\ unit.embedding = "None"
    /\ unit' = NoUnit

\* C20: when the embedding of a file is None the file is skipped: no entry
\* is written or changed, indexed_c stays, and the loop goes on to its next
\* iteration with to_index as it was; a pass that was not stopped attempts
\* every file of to_index.
C20_NoneSkipsFile ==
    /\ [][NoneUnitEnds =>
            /\ collection' = collection
            /\ indexed_c' = indexed_c
            /\ to_index' = to_index
            /\ ix_i' = ix_i + 1
            /\ pc' = "ix"
            /\ is_indexing' = is_indexing]_vars
    /\ []((AtEnd /\ ~stop_indexing_flag) => ix_i = Len(to_index))

\* A pass skipped its first file for want of an embedding and then indexed
\* its second file.
C20_Witness ==
    /\ AtEnd
    /\ outcomes = <<"no_embedding", "written">>
    /\ indexed_c = 1
    /\ to_index[1] \notin DOMAIN collection
    /\ to_index[2] \in DOMAIN collection


\* --------------------------------------------------------------------- C21
\* Store calls of the pass so far that did not raise, by operation.
RECURSIVE CountOk(_, _)
CountOk(evs, op) ==
    IF evs = <<>> THEN 0
    ELSE (IF Head(evs).op = op /\ Head(evs).ok THEN 1 ELSE 0) + CountOk(Tail(evs), op)

\* The step made a store call that raised.
StoreCallFailed ==
    \E i \in DOMAIN events' :
       /\ i > Len(events)
       /\ events'[i].op \in {"get", "delete", "upsert"}
       /\ ~events'[i].ok

MaxDistance == 25     \* distances are in tenths: 0.0 .. 2.5
Distances == 0..MaxDistance

n_results == 100      \* _perform_vector_search: search_similar_files(query, n_results=100)

\* The queries typed, after strip().
SearchQueries == {<<"x">>, <<"A">>}

\* The document stored with an entry: the text of the file, never blank
\* (auto_index_files passes a file over when content.strip() is empty).
StoredDocument == <<"x">>

Min2(a, b) == IF a < b THEN a ELSE b
Max2(a, b) == IF a > b THEN a ELSE b

\* Sequences over S without repetition, of length n.
RECURSIVE Arrangements(_, _)
Arrangements(S, n) ==
    IF n = 0 THEN {<<>>}
    ELSE UNION {{<<p>> \o rest : rest \in Arrangements(S \ {p}, n - 1)} : p \in S}

\* collection.query: the answers the store may give, the k entries nearest
\* to the query, nearest first; entries at the same distance in any order.
query_answers(coll, dist, k) ==
    {s \in Arrangements(DOMAIN coll, Min2(k, Cardinality(DOMAIN coll))) :
        /\ \A i, j \in DOMAIN s : i < j => dist[s[i]] <= dist[s[j]]
        /\ \A p \in DOMAIN coll \ Range(s) : \A i \in DOMAIN s : dist[s[i]] <= dist[p]}

\* One neighbour of the answer: what zip(metadatas, documents, distances) gives.
Neighbour(coll, dist, p) ==
    [metadata |-> coll[p], document |-> StoredDocument, distance |-> dist[p]]

\* The test of the loop in search_similar_files: metadata, document and
\* distance are truthy and the metadata has a file_path. A distance of 0.0
\* and an empty document are falsy.
kept(n) ==
    /\ DOMAIN n.metadata # {}
    /\ n.document # <<>>
    /\ n.distance # 0
    /\ "file_path" \in DOMAIN n.metadata

\* search_similar_files: the output list built from the neighbours.
search_output(ns) ==
    [i \in DOMAIN SelectSeq(ns, kept) |->
        LET n == SelectSeq(ns, kept)[i]
        IN  [file_path |-> n.metadata.file_path, content |-> n.document,
             distance |-> n.distance, metadata |-> n.metadata]]

\* Mutant: no lower clamp.
similarity_mutNoClamp(distance) == 1000 - 50 * distance

\* _display_search_results: max(0.0, 1.0 - (distance / 2.0)), in thousandths
\* for a distance in tenths.
similarity(distance) == Max2(0, 1000 - 50 * distance)

\* _display_search_results: the rows inserted into the tree.
display_rows(results) ==
    [i \in DOMAIN results |->
        [file_path |-> results[i].file_path, score |-> similarity(results[i].distance)]]

\* The store holds entries written by earlier passes; the connection was made
\* earlier and succeeded or failed.
InitSearch ==
    /\ fs = (A_PY :> 0 @@ C_LOG :> 0)
    /\ collection \in {EmptyFs,
                       (A_PY :> unit_meta(A_PY, StoredDocument, 0, 0)),
                       (A_PY :> unit_meta(A_PY, StoredDocument, 0, 0)
                          @@ C_LOG :> unit_meta(C_LOG, StoredDocument, 0, 0))}
    /\ now = 0
    /\ exclude_patterns_var = <<>>
    /\ all_text_files = scan_all_files(DOMAIN fs, exclude_patterns_var)
    /\ vector_file_filter_var = <<STAR_PY, STAR>>
    /\ is_indexing = FALSE
    /\ stop_indexing_flag = FALSE
    /\ last_cc = NoCall
    /\ pc = "idle"
    /\ all_files = <<>> /\ to_index = <<>> /\ to_remove = <<>>
    /\ rm_i = 0 /\ ix_i = 0 /\ indexed_c = 0 /\ removed_c = 0
    /\ indexedAtPlan = {} /\ diskAtPlan = {}
    /\ deletedByPass = {} /\ upsertedByPass = {}
    /\ hist = <<"off", <<>>>> /\ basis = <<"off", <<>>>>
    /\ vector_db = TRUE
    /\ vector_search_enabled = TRUE
    /\ vector_search_mode = TRUE
    /\ button_enabled = TRUE
    /\ threads = <<>>
    /\ cur_pass = 0
    /\ after_queue = <<>>
    /\ connect_pending = FALSE
    /\ continuous_timer = FALSE
    /\ reindex_job = FALSE
    /\ stop_req = 0
    /\ units_after_stop = 0
    /\ search_var = <<>>
    /\ last_exclusion_state = <<>>
    /\ search_job = FALSE
    /\ scan_threads = <<>>
    /\ search_threads = <<>>
    /\ tree = View("directory", <<>>, <<>>)
    /\ latest = [mode |-> "filter", term |-> <<>>, excl |-> <<>>]
    /\ connect_pc = "idle"
    /\ for_auto_indexing = FALSE
    /\ metered = FALSE
    /\ probes = NoProbes
    /\ requests_log = <<>>
    /\ active_ollama_url = OLLAMA_BASE_URL
    /\ ollama_available \in BOOLEAN
    /\ host_error = "None"
    /\ pull_stream = <<>>
    /\ frames_read = <<>>
    /\ status_log = <<>>
    /\ ensure_error = "None"
    /\ manual_index_status_label = <<>>
    /\ UnitAtRest
    /\ SearchAtRest
    /\ DebounceAtRest
    /\ PlatformAtRest
    /\ WalkAtRest

otherThanSearch == <<syncVars, uiVars, filterVars, netVars, unitVars, debounceVars, platformVars, walkVars>>

\* search_similar_files returns `out`.
search_returns(out) ==
    /\ output' = out
    /\ search_pc' = "returned"

\* sw: search_similar_files is entered with the stripped query; without a
\* connection it returns [] at once.
search_start ==
    /\ search_pc = "idle"
    /\ \E q \in SearchQueries : search_text' = q
    /\ IF ~ollama_available
       THEN search_returns(<<>>)
       ELSE search_pc' = "embed" /\ UNCHANGED output
    /\ UNCHANGED <<q_embed, store_queries, neighbours, rows, otherThanSearch>>

\* Mutant: the store is queried whatever generate_embedding gave.
search_embed_mutQueriesAnyway ==
    /\ search_pc = "embed"
    /\ \E r \in EmbedResponses :
          \E e \in generate_embedding(ollama_available, active_ollama_url, r) :
             /\ q_embed' = e
             /\ search_pc' = "query" /\ UNCHANGED output
    /\ UNCHANGED <<search_text, store_queries, neighbours, rows, otherThanSearch>>

\* search_similar_files: generate_embedding(query). None returns []; an
\* exception that leaves generate_embedding is caught by the except clause
\* of search_similar_files, which returns [].
search_embed ==
    /\ search_pc = "embed"
    /\ \E r \in EmbedResponses :
          \E e \in generate_embedding(ollama_available, active_ollama_url, r) :
             /\ q_embed' = e
             /\ IF e = "list"
                THEN search_pc' = "query" /\ UNCHANGED output
                ELSE search_returns(<<>>)
    /\ UNCHANGED <<search_text, store_queries, neighbours, rows, otherThanSearch>>

\* search_similar_files: collection.query and the loop over its answer. A
\* query that raises is caught and [] is returned.
search_query ==
    /\ search_pc = "query"
    /\ store_queries' = store_queries + 1
    /\ \E ok \in BOOLEAN :
          IF ~ok
          THEN /\ neighbours' = <<>>
               /\ search_returns(<<>>)
          ELSE \E dist \in [DOMAIN collection -> Distances] :
                  \E s \in query_answers(collection, dist, n_results) :
                     /\ neighbours' = [i \in DOMAIN s |-> Neighbour(collection, dist, s[i])]
                     /\ search_returns(search_output(neighbours'))
    /\ UNCHANGED <<search_text, q_embed, rows, otherThanSearch>>

\* The callback posted by sw: _display_search_results(results).
search_display ==
    /\ search_pc = "returned"
    /\ rows' = display_rows(output)
    /\ search_pc' = "displayed"
    /\ UNCHANGED <<search_text, q_embed, store_queries, neighbours, output, otherThanSearch>>

\* The query is edited: the next search starts from nothing.
search_again ==
    /\ search_pc = "displayed"
    /\ search_pc' = "idle"
    /\ search_text' = <<>>
    /\ q_embed' = "none"
    /\ store_queries' = 0
    /\ neighbours' = <<>>
    /\ output' = <<>>
    /\ rows' = <<>>
    /\ UNCHANGED otherThanSearch

NextSearch ==
    \/ search_start \/ search_embed \/ search_query \/ search_display \/ search_again

SpecSearch == InitSearch /\ [][NextSearch]_vars

\* --------------------------------------------------------------------- C22
\* C22: when generate_embedding gives None for the query, the search returns
\* the empty list and the store is not queried.
C22_NoEmbeddingNoQuery ==
    (search_pc \in {"returned", "displayed"} /\ q_embed = "None") =>
        (output = <<>> /\ store_queries = 0 /\ neighbours = <<>>)

\* A search has returned for which Ollama was reachable and gave no embedding.
C22_Witness ==
    search_pc = "returned" /\ ollama_available /\ q_embed = "None" /\ output = <<>>

\* --------------------------------------------------------------------- C23
\* The paths of a list of neighbours or of results.
PathsOf(seq, of_results) ==
    [i \in DOMAIN seq |-> IF of_results THEN seq[i].file_path ELSE seq[i].metadata.file_path]

\* C23: the list the search returns is the answer of the store, every
\* neighbour with a path kept, in the order of the store.
C23_AllNeighboursKept ==
    search_pc \in {"returned", "displayed"} =>
        PathsOf(output, TRUE)
          = PathsOf(SelectSeq(neighbours, LAMBDA n : "file_path" \in DOMAIN n.metadata), FALSE)

\* --------------------------------------------------------------------- C24
\* clamp(1 - d/2, 0, 1) in thousandths for a distance in tenths.
Clamped(distance) == Min2(1000, Max2(0, 1000 - 50 * distance))

\* C24: the score shown is clamp(1 - d/2, 0, 1): 1.0 at distance 0, 0.0 at
\* distance 2, never rising with the distance, always within [0, 1]; every
\* row displayed carries the score of its result.
C24_SimilarityClamped ==
    /\ \A d \in Distances : similarity(d) = Clamped(d) /\ similarity(d) \in 0..1000
    /\ similarity(0) = 1000 /\ similarity(20) = 0
    /\ \A d, e \in Distances : d <= e => similarity(d) >= similarity(e)
    /\ \A d, e \in 0..20 : d < e => similarity(d) > similarity(e)
    /\ search_pc = "displayed" =>
          /\ Len(rows) = Len(output)
          /\ \A i \in DOMAIN rows :
                /\ rows[i].file_path = output[i].file_path
                /\ rows[i].score = Clamped(output[i].distance)

\* Two results are displayed, one in the linear range and one beyond distance 2.
C24_Witness ==
    /\ search_pc = "displayed"
    /\ Len(rows) = 2
    /\ output[1].distance = 5 /\ rows[1].score = 750
    /\ output[2].distance > 20 /\ rows[2].score = 0


\* ------------------------------------------- the debounce timer, with time
MaxClock == 5         \* the clock stops here, in units of 100 ms
MaxTimerIds == 3      \* after() calls in one behaviour

SEARCH_DEBOUNCE == 3  \* root.after(300, ...), in units of 100 ms

\* The filter view at rest in filter mode, _search_job None, no timer set.
InitDebounce == InitFilter

debounceFixed == <<fs, now, vector_file_filter_var, is_indexing, stop_indexing_flag, last_cc,
                   collection, pc, all_files, to_index, to_remove, rm_i, ix_i, indexed_c,
                   removed_c, indexedAtPlan, diskAtPlan, deletedByPass, upsertedByPass, hist,
                   basis, vector_db, vector_search_enabled, button_enabled, threads,
                   cur_pass, connect_pending, continuous_timer, reindex_job, stop_req,
                   units_after_stop, netVars, unitVars, searchVars, platformVars,
                   walkVars>>

\* root.after_cancel(id): the timer with that identifier, if it is still set.
after_cancel(timers, id) == {t \in timers : t.id # id}

\* Mutant: the timer set before is not cancelled.
debounce_search_mutNoCancel ==
    /\ tk_ids < MaxTimerIds
    /\ tk_ids' = tk_ids + 1
    /\ tk_timers' = tk_timers \cup {[id |-> tk_ids + 1, due |-> tk_clock + SEARCH_DEBOUNCE]}
    /\ search_job_id' = tk_ids + 1
    /\ search_job' = TRUE
    /\ last_write' = tk_clock
    /\ runs_since_write' = 0
    /\ UNCHANGED tk_clock

\* _debounce_search: the timer named by _search_job is cancelled (a no-op
\* when it has run already: _search_job is never reset) and a new one is set.
debounce_search ==
    /\ tk_ids < MaxTimerIds
    /\ tk_ids' = tk_ids + 1
    /\ tk_timers' = (IF search_job_id # 0 THEN after_cancel(tk_timers, search_job_id)
                     ELSE tk_timers)
                      \cup {[id |-> tk_ids + 1, due |-> tk_clock + SEARCH_DEBOUNCE]}
    /\ search_job_id' = tk_ids + 1
    /\ search_job' = TRUE
    /\ last_write' = tk_clock
    /\ runs_since_write' = 0
    /\ UNCHANGED tk_clock

\* A write to the search entry: the trace calls _debounce_search.
write_search_text ==
    /\ \E text \in SearchTexts \ {search_var} : search_var' = text
    /\ debounce_search
    /\ UNCHANGED <<debounceFixed, exclude_patterns_var, all_text_files, vector_search_mode,
                   after_queue, last_exclusion_state, scan_threads, search_threads, tree,
                   latest>>

\* A write to the "Exclude Files" entry: the trace calls _debounce_search.
write_exclude_patterns ==
    /\ \E patterns \in ExcludeChoices \ {exclude_patterns_var} :
          exclude_patterns_var' = patterns
    /\ debounce_search
    /\ UNCHANGED <<debounceFixed, all_text_files, vector_search_mode, after_queue, search_var,
                   last_exclusion_state, scan_threads, search_threads, tree, latest>>

\* The event loop runs a timer that is due: _perform_filter_or_search.
timer_runs ==
    /\ \E t \in tk_timers :
          /\ t.due <= tk_clock
          /\ tk_timers' = tk_timers \ {t}
    /\ search_job' = FALSE
    /\ runs_since_write' = runs_since_write + 1
    /\ perform_filter_or_search(vector_search_mode)
    /\ UNCHANGED <<debounceFixed, exclude_patterns_var, all_text_files, vector_search_mode,
                   after_queue, search_var, tk_clock, tk_ids, search_job_id, last_write>>

\* 100 ms pass.
tk_tick ==
    /\ tk_clock < MaxClock
    /\ tk_clock' = tk_clock + 1
    /\ UNCHANGED <<syncVars, uiVars, filterVars, netVars, unitVars, searchVars,
                   tk_timers, tk_ids, search_job_id, last_write, runs_since_write,
                   platformVars, walkVars>>

NextDebounce ==
    \/ write_search_text
    \/ write_exclude_patterns
    \/ timer_runs
    \/ tk_tick
    \/ \E i \in 1..Len(scan_threads) : scan_read_regex(i)
    \/ \E i \in 1..Len(scan_threads) : scan_and_repopulate(i)
    \/ scan_callback

SpecDebounce == InitDebounce /\ [][NextDebounce]_vars

\* --------------------------------------------------------------------- C25
\* The step runs the debounced _perform_filter_or_search.
TimerRan == runs_since_write' = runs_since_write + 1

\* C25: at most one debounce timer is set at any time; after a burst of
\* writes the action runs once, no sooner than one quiet period after the
\* last write, and not again until the next write.
C25_Debounced ==
    /\ [](/\ Cardinality(tk_timers) <= 1
          /\ tk_ids > 0 => Cardinality(tk_timers) + runs_since_write = 1)
    /\ [][TimerRan => /\ tk_clock >= last_write + SEARCH_DEBOUNCE
                      /\ tk_timers' = {}
                      /\ runs_since_write' = 1]_vars

\* Three writes within the quiet period, then one run of the action.
C25_Witness ==
    /\ tk_ids = 3
    /\ last_write < SEARCH_DEBOUNCE
    /\ runs_since_write = 1
    /\ tk_timers = {}


\* --------------------------------------------------------------------- C26
\* The step is the debounce timer running _perform_filter_or_search.
DebouncedActionRan == search_job /\ ~search_job'

\* C26: when the debounced action runs and the exclusion entries differ from
\* those of the last catalog scan, a scan is started before anything is
\* shown, in filter mode and in vector mode; when they are the same no scan
\* is started.
C26_RescanInEitherMode ==
    [][DebouncedActionRan =>
          IF last_exclusion_state # exclude_patterns_var
          THEN /\ Len(scan_threads') = Len(scan_threads) + 1
               /\ last_exclusion_state' = exclude_patterns_var
               /\ tree' = tree
          ELSE scan_threads' = scan_threads]_vars


\* --------------------------------------------------------------------- C27
\* The thread that resolves the host was left by an exception nothing
\* catches: it posts no callback and runs no further statement.
WorkerThreadDied == connect_pc = "crashed"

\* C27: the system is never left busy for good: while is_indexing is true
\* the thread that is to clear it and to report the terminal status is
\* still running or has posted its callback.
C27_BusyHasLiveWorker == is_indexing => ~WorkerThreadDied


\* --------------------------------------------------------------------- C28
\* The progress reports of the pass, in order.
Reports == SelectSeq(events, LAMBDA e : e.op \in {"removing", "indexing"})

\* C28: one progress report per finished unit, also for a unit that was
\* passed over or failed; the i-th report carries completed = i and
\* total = |to_index| + |to_remove|, so completed starts at 1, rises by one
\* and never exceeds the total, in a pass that is stopped as well; the phase
\* is "removing" for a removal and "indexing" for a file.
C28_ProgressCounts ==
    pc \in {"rm", "rm_do", "ix", "ix_do", "cc", "done"} =>
        /\ Len(Reports) = Len(outcomes)
        /\ Len(Reports) = rm_i + ix_i
        /\ \A i \in DOMAIN Reports :
              /\ Reports[i].c = i
              /\ Reports[i].t = Len(to_index) + Len(to_remove)
              /\ Reports[i].c <= Reports[i].t
              /\ Reports[i].op = (IF outcomes[i] \in {"removed", "remove_failed"}
                                  THEN "removing" ELSE "indexing")

\* A pass has ended whose removal failed and whose file was passed over as
\* blank: two reports, 1 of 2 and 2 of 2.
C28_Witness ==
    /\ pc = "done"
    /\ outcomes = <<"remove_failed", "blank">>
    /\ Len(Reports) = 2
    /\ Reports[1].c = 1 /\ Reports[2].c = 2 /\ Reports[2].t = 2

\* --------------------------------------------------------------------- C29
\* C29: within a pass every delete and every "removing" report comes before
\* every embedding call, every upsert and every "indexing" report.
C29_RemovalsFirst ==
    \A i, j \in DOMAIN events :
       (events[i].op \in {"embed", "upsert", "indexing"}
          /\ events[j].op \in {"delete", "removing"}) => j < i

\* A pass has ended that deleted an entry and then embedded and wrote a file.
C29_Witness ==
    /\ pc = "done"
    /\ \E i, j, k \in DOMAIN events :
          /\ events[i].op = "delete" /\ events[i].ok
          /\ events[j].op = "embed"
          /\ events[k].op = "upsert" /\ events[k].ok
          /\ i < j /\ j < k


\* ------------------------------------------------ the store, keyed by ids
\* hashlib.md5(...).hexdigest(): a digest that depends on the bytes hashed
\* and on nothing else; different inputs of the model get different digests.
md5(bytes) == <<"md5", bytes>>

\* Mutant: the identifier is salted with the time of the call.
file_id_mutSalted(file_path) == md5(<<file_path, now>>)

\* ids=[hashlib.md5(file_path.encode()).hexdigest()] of add_file_to_index
\* and of remove_file_from_index.
file_id(file_path) == md5(file_path)

\* The texts of a file at the times it is indexed.
StoreContents == {<<"x">>, <<"x", "x">>}

\* Two text files on disk and an empty collection, keyed by identifier.
InitStore ==
    /\ fs = (A_PY :> 0 @@ C_LOG :> 0)
    /\ now = 0
    /\ exclude_patterns_var = <<>>
    /\ all_text_files = scan_all_files(DOMAIN fs, exclude_patterns_var)
    /\ vector_file_filter_var = <<STAR_PY, STAR>>
    /\ is_indexing = FALSE
    /\ stop_indexing_flag = FALSE
    /\ last_cc = NoCall
    /\ collection = EmptyFs
    /\ pc = "idle"
    /\ all_files = <<>> /\ to_index = <<>> /\ to_remove = <<>>
    /\ rm_i = 0 /\ ix_i = 0 /\ indexed_c = 0 /\ removed_c = 0
    /\ indexedAtPlan = {} /\ diskAtPlan = {}
    /\ deletedByPass = {} /\ upsertedByPass = {}
    /\ hist = <<"off", <<>>>> /\ basis = <<"off", <<>>>>
    /\ UiAtRest

storeFixed == <<fs, now, appVars, is_indexing, stop_indexing_flag, last_cc, workerVars,
                histVars, hist, uiVars, filterVars, netVars, unit, outcomes, searchVars,
                debounceVars, platformVars, walkVars>>

\* add_file_to_index with an embedding: collection.upsert under the
\* identifier of the path; an upsert that raises writes nothing.
store_upsert ==
    /\ \E fp \in DOMAIN fs, content \in StoreContents, ok \in BOOLEAN :
          /\ collection' = IF ok
                            THEN upsert(collection, file_id(fp),
                                        unit_meta(fp, content, now, fs[fp]))
                            ELSE collection
          /\ events' = <<Event("upsert", fp, ok, 0, 0)>>
    /\ UNCHANGED storeFixed

\* remove_file_from_index: collection.delete of the identifier of the path;
\* deleting an identifier that is not there changes nothing.
store_delete ==
    /\ \E fp \in Paths, ok \in BOOLEAN :
          /\ collection' = IF ok THEN delete(collection, file_id(fp)) ELSE collection
          /\ events' = <<Event("delete", fp, ok, 0, 0)>>
    /\ UNCHANGED storeFixed

NextStore == store_upsert \/ store_delete \/ Tick

SpecStore == InitStore /\ [][NextStore]_vars

\* --------------------------------------------------------------------- C30
\* The identifiers of the entries stored for a path.
EntriesOf(coll, file_path) == {id \in DOMAIN coll : coll[id].file_path = file_path}

\* Every entry of another path is as it was.
OthersKept(file_path) ==
    /\ DOMAIN collection' \ EntriesOf(collection', file_path)
         = DOMAIN collection \ EntriesOf(collection, file_path)
    /\ \A id \in DOMAIN collection \ EntriesOf(collection, file_path) :
          collection'[id] = collection[id]

\* C30: the collection holds at most one entry per path: a store call (a
\* step in which no time passes) that indexes a path again overwrites its
\* entry, and one that removes a path deletes its entry and no other.
C30_OneEntryPerPath ==
    /\ [](\A file_path \in Paths : Cardinality(EntriesOf(collection, file_path)) <= 1)
    /\ [][now' = now /\ events' # <<>> /\ events'[1].ok =>
            /\ OthersKept(events'[1].path)
            /\ events'[1].op = "upsert" =>
                  /\ Cardinality(EntriesOf(collection', events'[1].path)) = 1
                  /\ \A id \in EntriesOf(collection', events'[1].path) :
                        collection'[id].indexed_at = now
            /\ events'[1].op = "delete" =>
                  EntriesOf(collection', events'[1].path) = {}]_vars

\* a.py was indexed again at a later time while c.log is stored: still one
\* entry for each.
C30_Witness ==
    /\ events = <<Event("upsert", A_PY, TRUE, 0, 0)>>
    /\ Cardinality(DOMAIN collection) = 2
    /\ \E id \in DOMAIN collection :
          collection[id].file_path = A_PY /\ collection[id].indexed_at = 2


\* --------------------------------------------------------------------- C33
\* The store answered and its nearest neighbour is an exact match.
ExactMatchFound ==
    /\ search_pc \in {"returned", "displayed"}
    /\ neighbours # <<>>
    /\ neighbours[1].distance = 0

\* C33: a neighbour at distance 0 is in the results, ranked first, and is
\* displayed with similarity 1.0.
C33_ExactMatchRankedFirst ==
    ExactMatchFound =>
        /\ output # <<>>
        /\ output[1].file_path = neighbours[1].metadata.file_path
        /\ output[1].distance = 0
        /\ search_pc = "displayed" => rows[1].score = 1000

\* --------------------------------------------------------------------- C38
\* The step passes a file over because its text is blank.
BlankPassedOver ==
    /\ Len(outcomes') = Len(outcomes) + 1
    /\ outcomes'[Len(outcomes')] = "blank"

\* The file the worker has read but not finished is blank.
BlankInProgress == unit.at # "none" /\ strip(unit.content) = <<>>

\* C38: a file whose text is empty after strip() is passed over: the unit
\* ends with its progress report and nothing else, without an embedding
\* request or an upsert, with the store and indexed_c as they were; no file
\* with such a text ever gets as far as the metadata or the embedding.
C38_BlankSkipped ==
    /\ [](~BlankInProgress)
    /\ [][BlankPassedOver =>
            /\ events' = Append(events, Report("indexing"))
            /\ indexed_c' = indexed_c
            /\ collection' = collection
            /\ ix_i' = ix_i + 1
            /\ pc' = "ix"]_vars

\* A pass has ended that passed a blank file over and wrote the next one:
\* two reports, one embedding request, one upsert.
C38_Witness ==
    /\ pc = "done"
    /\ outcomes = <<"blank", "written">>
    /\ indexed_c = 1
    /\ Len(SelectSeq(events, LAMBDA e : e.op = "embed")) = 1
    /\ Len(Reports) = 2


\* --------------------------------------------------------------------- C35
\* C35: the catalog cache has one writer at a time, and once every scan that
\* was started has finished the cache is the scan result for the exclusion
\* entries requested last.
C35_CacheWritersSerialized ==
    /\ Len(scan_threads) <= 1
    /\ scan_threads = <<>> =>
          all_text_files = scan_all_files(DOMAIN fs, last_exclusion_state)


\* --------------------------------------------------------------------- C32
\* The step starts a periodic pass.
PeriodicPassStarted ==
    \E t \in DOMAIN threads' \ DOMAIN threads : threads'[t].kind = "continuous"

\* C32: the periodic schedule never ends: the timer of
\* _start_continuous_indexing is consumed only by a tick that starts a
\* periodic pass; a tick that finds another pass running leaves a timer set.
C32_PeriodicScheduleKept ==
    [][(continuous_timer /\ ~continuous_timer') => PeriodicPassStarted]_vars


\* ---------------------------------------------------------------------------
\* The indexing unit with the file system changing under it. The worker thread
\* holds no lock on the file: between f.read() (260), os.path.getmtime (262)
\* and collection.upsert (186) another process may write the file.
\* ---------------------------------------------------------------------------

\* The file of the unit in progress is written by another process.
modified_during_unit ==
    /\ pc = "ix_do" /\ unit.at # "none"
    /\ \E t \in 0..MaxTime :
          LET fp == to_index[ix_i + 1]
          IN  /\ t > fs[fp]
              /\ fs' = [fs EXCEPT ![fp] = t]
    /\ hist' = Track(Unknown)
    /\ UNCHANGED <<now, appVars, passVars>>
    /\ UNCHANGED otherThanSync

NextRace == NextUnit \/ modified_during_unit

SpecRace == InitUnit /\ [][NextRace]_vars

\* The unit's upsert has just written the entry of its file.
UnitWrote ==
    /\ pc = "ix_do" /\ unit.at = "upsert"
    /\ outcomes' = Append(outcomes, "written")

\* C36: the file_mtime (sourceModifiedAt) the unit stores is the modification
\* time the file had when its content was read, also when the file is written
\* between the read, the metadata and the upsert.
C36_StoredMtimeOfContentRead ==
    [][UnitWrote => collection'[to_index[ix_i + 1]].file_mtime = unit.read_mtime]_vars


\* ---------------------------------------------------------------------------
\* SpecOrder: the pass over a project with sub-directories, on either
\* platform. The catalog holds relative paths with "/" on every platform
\* (line 751 replaces os.path.sep by "/"); the sort key of line 245 counts
\* os.path.sep, which is "\" on win32.
\* ---------------------------------------------------------------------------
B_PY     == <<"b", ".", "p", "y">>
A_C_PY   == <<"a", "/", "c", ".", "p", "y">>
B_A_PY   == <<"b", "/", "a", ".", "p", "y">>
A_B_A_PY == <<"a", "/", "b", "/", "a", ".", "p", "y">>

\* The files of the project.
NestedPaths == {B_PY, A_C_PY, B_A_PY, A_B_A_PY}

\* os.path.sep of the platforms the program runs on (sys.platform is tested
\* for "win32" at lines 312 and 461).
Separators == {"/", "\\"}

\* The sort key of auto_index_files with os.path.sep as the platform has it.
platform_key_less(p, q, sep) ==
    LET count(s) == Cardinality(Positions(s, sep))
    IN  \/ count(p) < count(q)
        \/ count(p) = count(q) /\ LexLess(lower(p), lower(q))

\* list.sort with that key.
RECURSIVE platform_sort(_, _)
platform_sort(S, sep) ==
    IF S = {} THEN <<>>
    ELSE LET m == CHOOSE x \in S : \A y \in S \ {x} : platform_key_less(x, y, sep)
         IN  <<m>> \o platform_sort(S \ {m}, sep)

InitOrder ==
    /\ fs = [p \in NestedPaths |-> 0]
    /\ now = 0
    /\ exclude_patterns_var = <<>>
    /\ all_text_files = scan_all_files(DOMAIN fs, exclude_patterns_var)
    /\ vector_file_filter_var = DEFAULT_VECTOR_FILE_FILTER
    /\ is_indexing = FALSE
    /\ stop_indexing_flag = FALSE
    /\ last_cc = NoCall
    /\ collection = EmptyFs
    /\ pc = "idle"
    /\ all_files = <<>> /\ to_index = <<>> /\ to_remove = <<>>
    /\ rm_i = 0 /\ ix_i = 0 /\ indexed_c = 0 /\ removed_c = 0
    /\ indexedAtPlan = {} /\ diskAtPlan = {}
    /\ deletedByPass = {} /\ upsertedByPass = {}
    /\ hist = <<"off", <<>>>> /\ basis = <<"off", <<>>>>
    /\ AppAtRest
    /\ WalkAtRest
    /\ os_path_sep \in Separators

\* worker: get_files_to_index, the sort and the total_ops test, with the
\* platform's os.path.sep in the key.
platform_plan ==
    /\ pc = "plan"
    /\ LET indexed == get_indexed_files(collection)
           ti == platform_sort(Range(files_to_index(all_files, indexed, fs)), os_path_sep)
           tr == files_to_remove(all_files, indexed, fs)
       IN  /\ to_index' = ti
           /\ to_remove' = tr
           /\ pc' = IF Len(ti) + Len(tr) = 0 THEN "cc" ELSE "rm"
    /\ indexedAtPlan' = DOMAIN collection
    /\ diskAtPlan' = DOMAIN fs
    /\ basis' = hist
    /\ UNCHANGED <<fs, now, appVars, is_indexing, stop_indexing_flag, last_cc, collection,
                   all_files, rm_i, ix_i, indexed_c, removed_c,
                   deletedByPass, upsertedByPass, hist>>
    /\ UNCHANGED otherThanSync

NextOrder ==
    \/ ModifyFile \/ DeleteFile \/ Rescan
    \/ StartPass \/ StopClick
    \/ platform_plan \/ RmCheck \/ RmDo \/ IxCheck \/ IxDo \/ Complete \/ Return

SpecOrder == InitOrder /\ [][NextOrder]_vars

\* The directory depth of a catalog path: its "/" separators.
depth(p) == Cardinality(Positions(p, "/"))

\* The indexing loop takes the next file of to_index.
UnitTaken == pc = "ix_do" /\ ix_i' = ix_i + 1

\* C37: the files of to_index are processed by directory depth, then by
\* case-insensitive name: when a file is taken, no file still waiting has a
\* strictly smaller depth, and none of equal depth comes earlier in the
\* case-insensitive order.
C37_ShallowFilesFirst ==
    [][UnitTaken =>
          \A j \in (ix_i + 2)..Len(to_index) :
             LET fp == to_index[ix_i + 1]
                 later == to_index[j]
             IN  /\ depth(fp) <= depth(later)
                 /\ depth(fp) = depth(later) => LexLess(lower(fp), lower(later))]_vars


\* ---------------------------------------------------------------------------
\* SpecCounts: the pass of SpecUnit with callbacks that may raise.
\* auto_index_files takes progress_callback as a parameter and calls it inside
\* the outer try (255, 266); when it raises, the outer except clause (268-270)
\* calls completion_callback(0, 0, 0, 0).
\* ---------------------------------------------------------------------------

\* progress_callback(op_c, total_ops, phase), returning (ok) or raising.
report_call(phase, cb_ok) == [Report(phase) EXCEPT !.ok = cb_ok]

\* worker: remove_file_from_index for one path, removed_c, op_c and the
\* progress callback, which may raise.
counts_remove ==
    /\ pc = "rm_do"
    /\ \E ok \in BOOLEAN, cb_ok \in BOOLEAN :
          LET fp == to_remove[rm_i + 1]
          IN  /\ collection' = IF ok THEN delete(collection, fp) ELSE collection
              /\ removed_c' = IF ok THEN removed_c + 1 ELSE removed_c
              /\ deletedByPass' = IF ok THEN deletedByPass \cup {fp} ELSE deletedByPass
              /\ events' = events \o <<Event("delete", fp, ok, 0, 0),
                                       report_call("removing", cb_ok)>>
              /\ outcomes' = Append(outcomes, IF ok THEN "removed" ELSE "remove_failed")
              /\ pc' = IF cb_ok THEN "rm" ELSE "except"
    /\ rm_i' = rm_i + 1
    /\ UNCHANGED <<fs, now, appVars, is_indexing, stop_indexing_flag, last_cc,
                   all_files, to_index, to_remove, ix_i, indexed_c,
                   indexedAtPlan, diskAtPlan, upsertedByPass, basis, hist>>
    /\ UNCHANGED <<uiVars, filterVars, netVars, unit, searchVars, debounceVars,
                   platformVars, walkVars>>

\* The unit ends: op_c += 1 and the progress callback, which may raise.
counts_end_unit(how, calls, cb_ok) ==
    /\ unit' = NoUnit
    /\ outcomes' = Append(outcomes, how)
    /\ events' = events \o calls \o <<report_call("indexing", cb_ok)>>
    /\ ix_i' = ix_i + 1
    /\ pc' = IF cb_ok THEN "ix" ELSE "except"

\* worker: open and read the file, as unit_read.
counts_read ==
    /\ pc = "ix_do" /\ unit.at = "none"
    /\ \/ \E cb_ok \in BOOLEAN : counts_end_unit("unreadable", <<>>, cb_ok)
       \/ \E content \in Contents :
             IF strip(content) = <<>>
             THEN \E cb_ok \in BOOLEAN : counts_end_unit("blank", <<>>, cb_ok)
             ELSE /\ unit' = [unit EXCEPT !.at = "meta", !.content = content,
                                           !.read_mtime = fs[to_index[ix_i + 1]]]
                  /\ UNCHANGED <<outcomes, events, ix_i, pc>>
    /\ UNCHANGED <<unitFixed, collection, indexed_c>>

\* add_file_to_index and indexed_c, as unit_upsert.
counts_upsert ==
    /\ pc = "ix_do" /\ unit.at = "upsert"
    /\ \E store_ok \in BOOLEAN, cb_ok \in BOOLEAN :
          LET fp == to_index[ix_i + 1]
              written == add_file_to_index(unit.embedding, store_ok)
          IN  /\ collection' = IF written THEN upsert(collection, fp, unit.meta)
                                ELSE collection
              /\ indexed_c' = IF written THEN indexed_c + 1 ELSE indexed_c
              /\ counts_end_unit(unit_outcome(unit.embedding, written),
                                 upsert_calls(fp, unit.embedding, store_ok), cb_ok)
    /\ UNCHANGED unitFixed

\* worker, the outer except clause: completion_callback(0, 0, 0, 0).
worker_except ==
    /\ pc = "except"
    /\ is_indexing' = FALSE
    /\ last_cc' = Append(last_cc, [ic |-> 0, tic |-> 0, rc |-> 0, trc |-> 0,
                                    stopped |-> stop_indexing_flag])
    /\ pc' = "done"
    /\ hist' = Track(Unknown)
    /\ UNCHANGED <<fs, now, appVars, stop_indexing_flag, collection,
                   all_files, to_index, to_remove, rm_i, ix_i, indexed_c, removed_c, histVars>>
    /\ UNCHANGED otherThanSync

NextCounts ==
    \/ Tick \/ ModifyFile
    \/ StartPass \/ StopClick
    \/ unit_plan \/ RmCheck \/ counts_remove \/ IxCheck
    \/ counts_read \/ unit_make_meta \/ unit_embed \/ counts_upsert
    \/ Complete \/ worker_except \/ unit_return

SpecCounts == InitUnit /\ [][NextCounts]_vars

\* The store calls of the pass that succeeded.
Succeeded(op) == {i \in DOMAIN events : events[i].op = op /\ events[i].ok}

\* C34: the counts handed to the completion callback are those of the pass:
\* indexedCount the upserts that succeeded, removedCount the deletes that
\* succeeded, neither above its target, also when the pass was cancelled or
\* ended in the outer except clause.
C34_CountsOfThePass ==
    (pc = "done" /\ last_cc # NoCall) =>
        LET cc == last_cc[Len(last_cc)]
        IN  /\ cc.ic = Cardinality(Succeeded("upsert"))
            /\ cc.rc = Cardinality(Succeeded("delete"))
            /\ cc.ic <= cc.tic
            /\ cc.rc <= cc.trc


\* ---------------------------------------------------------------------------
\* SpecScan: _scan_and_cache_all_files in simple exclusion mode, one step per
\* directory os.walk yields. A directory is the path of its components,
\* <<>> for the project directory itself.
\* ---------------------------------------------------------------------------
C_PY       == <<"c", ".", "p", "y">>
DOT_B_C_PY == <<"a", ".", "/", "b", "/", "c", ".", "p", "y">>

\* The files the project may hold, and the values of the "Exclude Dirs" entry.
ScanPaths == {C_PY, B_A_PY, A_C_PY, A_B_A_PY, DOT_B_C_PY}
ExcludeDirChoices == {<<>>, << <<"b">> >>, << <<"B">> >>}

\* The directories above a path, and the directory a path lies in.
dirs_above(p) == {SubSeq(p, 1, i - 1) : i \in Positions(p, "/")}
dirname(p) == SubSeq(p, 1, LastPos(p, "/") - 1)

\* What os.walk yields for a directory: its sub-directories and its files.
walk_subdirs(disk, dir) ==
    {d \in UNION {dirs_above(p) : p \in disk} : dirname(d) = dir}
walk_files(disk, dir) == {p \in disk : dirname(p) = dir}

\* str.replace('./', ''): every occurrence, left to right.
RECURSIVE replace_dot_slash(_)
replace_dot_slash(s) ==
    IF s = <<>> THEN <<>>
    ELSE IF Len(s) >= 2 /\ s[1] = "." /\ s[2] = "/"
         THEN replace_dot_slash(SubSeq(s, 3, Len(s)))
         ELSE <<s[1]>> \o replace_dot_slash(Tail(s))

\* The directory part of the regex, (^|/|\\)(d1|d2|...)(/|\\|$) with
\* re.IGNORECASE, searched in s.
dirs_regex_search(s, dirs) ==
    \E k \in 1..Len(dirs), i \in 1..Len(s) :
       LET d == dirs[k]
           j == i + Len(d) - 1
       IN  /\ j <= Len(s)
           /\ lower(SubSeq(s, i, j)) = lower(d)
           /\ i = 1 \/ s[i - 1] \in {"/", "\\"}
           /\ j = Len(s) \/ s[j + 1] \in {"/", "\\"}

\* regex.search of _get_exclusion_regex in simple mode; no regex when both
\* entries are empty.
regex_search(s, dirs, patterns) == dirs_regex_search(s, dirs) \/ excluded(s, patterns)

\* os.path.relpath(root, self.directory) with "/" as separator.
rel_root_for_match(dir) == IF dir = <<>> THEN <<".">> ELSE dir

\* The test of line 749: the directory d found in root is kept in dirs.
dir_kept(root, d, dirs, patterns) ==
    ~regex_search(replace_dot_slash(rel_root_for_match(root) \o <<"/">> \o basename(d) \o <<"/">>),
                  dirs, patterns)

InitScan ==
    /\ \E S \in SUBSET ScanPaths : fs = [p \in S |-> 0]
    /\ now = 0
    /\ exclude_patterns_var = <<>>
    /\ all_text_files = <<>>
    /\ vector_file_filter_var = DEFAULT_VECTOR_FILE_FILTER
    /\ is_indexing = FALSE
    /\ stop_indexing_flag = FALSE
    /\ last_cc = NoCall
    /\ collection = EmptyFs
    /\ pc = "idle"
    /\ all_files = <<>> /\ to_index = <<>> /\ to_remove = <<>>
    /\ rm_i = 0 /\ ix_i = 0 /\ indexed_c = 0 /\ removed_c = 0
    /\ indexedAtPlan = {} /\ diskAtPlan = {}
    /\ deletedByPass = {} /\ upsertedByPass = {}
    /\ hist = <<"off", <<>>>> /\ basis = <<"off", <<>>>>
    /\ AppAtRest
    /\ PlatformAtRest
    /\ exclude_dirs_var \in ExcludeDirChoices
    /\ walk_pc = "idle"
    /\ walk_dirs = <<>>
    /\ walk_todo = <<>>
    /\ walk_opened = {}
    /\ walk_found = <<>>

scanFixed == <<fs, now, exclude_patterns_var, vector_file_filter_var, passVars, hist,
               uiVars, filterVars, netVars, unitVars, searchVars, debounceVars, platformVars>>

\* The user edits the "Exclude Dirs" entry while no scan is walking.
set_exclude_dirs ==
    /\ walk_pc # "walking"
    /\ \E d \in ExcludeDirChoices \ {exclude_dirs_var} : exclude_dirs_var' = d
    /\ UNCHANGED <<scanFixed, all_text_files, walk_pc, walk_dirs, walk_todo, walk_opened,
                   walk_found>>

\* _scan_and_cache_all_files: the regex is built and os.walk starts at the
\* project directory.
scan_start ==
    /\ walk_pc # "walking"
    /\ walk_pc' = "walking"
    /\ walk_dirs' = exclude_dirs_var
    /\ walk_todo' = << <<>> >>
    /\ walk_opened' = {}
    /\ walk_found' = <<>>
    /\ UNCHANGED <<scanFixed, all_text_files, exclude_dirs_var>>

\* One iteration of the for loop: os.walk opens and lists the next
\* directory, dirs[:] keeps the sub-directories os.walk will descend into
\* (in the order the listing gave them), the files that pass are appended.
walk_dir ==
    /\ walk_pc = "walking" /\ walk_todo # <<>>
    /\ LET root == Head(walk_todo)
           dirs == {d \in walk_subdirs(DOMAIN fs, root) :
                       dir_kept(root, d, walk_dirs, exclude_patterns_var)}
           files == {p \in walk_files(DOMAIN fs, root) :
                        /\ ~regex_search(p, walk_dirs, exclude_patterns_var)
                        /\ is_includable_file(p)}
       IN  /\ walk_opened' = walk_opened \cup {root}
           /\ \E order \in Arrangements(dirs, Cardinality(dirs)) :
                 walk_todo' = order \o Tail(walk_todo)
           /\ \E listing \in Arrangements(files, Cardinality(files)) :
                 walk_found' = walk_found \o listing
    /\ UNCHANGED <<scanFixed, all_text_files, exclude_dirs_var, walk_pc, walk_dirs>>

\* os.walk is exhausted: self.all_text_files = sorted(all_files_list, key=str.lower).
scan_finish ==
    /\ walk_pc = "walking" /\ walk_todo = <<>>
    /\ all_text_files' = SortByLower(Range(walk_found))
    /\ walk_pc' = "done"
    /\ UNCHANGED <<scanFixed, exclude_dirs_var, walk_dirs, walk_todo, walk_opened, walk_found>>

NextScan == set_exclude_dirs \/ scan_start \/ walk_dir \/ scan_finish

SpecScan == InitScan /\ [][NextScan]_vars

\* A directory the exclusion rules of the running scan name: the regex
\* matches its relative path.
ExcludedDir(d) == regex_search(d \o <<"/">>, walk_dirs, exclude_patterns_var)

\* C31: the scan opens and lists no excluded directory, and no file below an
\* excluded directory, at any depth, is collected or reaches the catalog.
C31_ExcludedDirsPruned ==
    walk_pc # "idle" =>
        /\ \A d \in walk_opened : ~ExcludedDir(d)
        /\ \A p \in Range(walk_found) : \A d \in dirs_above(p) : ~ExcludedDir(d)
        /\ walk_pc = "done" =>
              \A p \in Range(all_text_files) : \A d \in dirs_above(p) : ~ExcludedDir(d)

====
